---------------------------- MODULE Spec2Model ----------------------------
(* A model of the USAJOBS ETL service (src/etl/etl.py): the retry          *)
(* decorator, the circuit breaker, the API client's search_jobs and the    *)
(* pagination loop of ETLService.run.                                      *)
(*                                                                         *)
(* Time is the value of time.time() in whole seconds, assumed monotonic.   *)
(* A Python str is the sequence of its code points ("http" is              *)
(* <<104, 116, 116, 112>>). An exception is modelled by its message, and a *)
(* call's outcome is a record [kind |-> "return" | "raise", val |-> ...].  *)
EXTENDS Integers, Sequences, FiniteSets, TLC

VARIABLES
    now,                \* time.time()
    \* ---- CircuitBreaker fields (etl.py:134-139)
    failure_threshold,
    recovery_timeout,
    failure_count,
    last_failure_time,
    state,
    \* ---- what the last CircuitBreaker.call did (observation of the caller)
    invoked,            \* the wrapped func was invoked by the last call
    op_outcome,         \* what the wrapped func did in the last call
    call_result,        \* what the last call returned or raised
    call_time,          \* time.time() when the last call was entered
    entry_state,        \* the breaker's state when the last call was entered
    op_fail_time,       \* time.time() when func last raised (line 156)
    op_failures,        \* number of func invocations that raised, so far
    op_successes,       \* number of func invocations that returned, so far
    ncalls,             \* number of CircuitBreaker.call calls so far
    consecutive_failures,   \* func invocations that raised since func last returned
    failures_since_reset,   \* func invocations that raised since a trial call
                            \* last returned (or since construction)
    \* ---- retry.wrapper locals and parameters (etl.py:63-93)
    max_attempts,
    delay,
    backoff,
    attempts,
    current_delay,
    retry_pc,           \* "idle" | "loop" | "returned" | "raised"
    retry_result,       \* what wrapper returned or raised
    invocations,        \* number of func(*args) invocations of this wrapper call
    func_log,           \* the outcomes of those invocations, in order
    sleeps,             \* the time.sleep arguments of this wrapper call, in order
    \* ---- USAJobsAPIClient fields (etl.py:178-180)
    request_count,
    api_delay,
    \* ---- the remote API: the page payloads it serves (by their names)
    api_pages,
    \* ---- the threads that share one CircuitBreaker: for each, where it is
    \* in CircuitBreaker.call and the state it found on entry
    callers,
    \* ---- DatabaseManager: the rows of job_postings, position_uri -> row
    store,
    \* ---- a call of DatabaseManager.upsert_jobs by a caller of its own
    jobs_arg,           \* the `jobs` argument of the call
    deduped,            \* `unique_jobs` of the last attempt (line 465)
    rows_before,        \* the rows of job_postings when the call was made
    upsert_result,      \* what the call returned or raised
    reapplied,          \* the call repeats the one before it
    \* ---- ETLService.metrics (etl.py:571-578) and the locals of run()
    metrics,
    pc,                 \* where run() is: "idle" | "create_tables" | "loop_head" |
                        \* "search" | "page" | "load" | "upsert" | "finish" |
                        \* "done" | "aborted"
    max_pages,
    page,
    all_jobs,
    fetch_outcome,      \* what search_jobs returned or raised for `page`
    db_stats,
    run_result,         \* what run() returned (the summary) or raised
    requested,          \* the page numbers passed to search_jobs, in order
    iterations,         \* iterations of the pagination loop begun
    fetched,            \* <<page, payload>> of each search_jobs call of this
                        \* run that returned, in order
    errors_before,      \* len(self.metrics["errors"]) when run() was called
    statistics_ok,      \* whether the last get_statistics query of run() succeeded
    run_results         \* what the earlier calls of run() on this service
                        \* returned or raised, in order

cbVars == <<failure_threshold, recovery_timeout, failure_count,
            last_failure_time, state>>
cbObs == <<invoked, op_outcome, call_result, call_time, entry_state,
           op_fail_time, op_failures, op_successes, ncalls, consecutive_failures,
           failures_since_reset>>
retryVars == <<max_attempts, delay, backoff, attempts, current_delay,
               retry_pc, retry_result, invocations, func_log, sleeps>>
clientVars == <<request_count, api_delay>>
runVars == <<metrics, pc, max_pages, page, all_jobs, fetch_outcome, db_stats,
             run_result, requested, iterations, fetched, errors_before, statistics_ok,
             run_results>>
dbVars == <<jobs_arg, deduped, rows_before, upsert_result, reapplied>>
vars == <<now, cbVars, cbObs, retryVars, clientVars, api_pages, callers, store,
          dbVars,
          runVars>>

-----------------------------------------------------------------------------
(* Bounds of the model                                                     *)
MaxThreshold == 3       \* failure_threshold is drawn from 1..MaxThreshold
MaxRecovery == 2        \* recovery_timeout is drawn from 0..MaxRecovery
MaxTime == 4            \* the breaker's clock stops advancing here
MaxDur == 1             \* a wrapped operation takes 0..MaxDur seconds
MaxCalls == 6           \* calls made on one breaker
MaxAttemptsBound == 3   \* max_attempts is drawn from 0..MaxAttemptsBound
MaxDelay == 2           \* delay is drawn from 1..MaxDelay
MaxBackoff == 3         \* backoff is drawn from 1..MaxBackoff
MaxPages == 3           \* run()'s max_pages is drawn from 0..MaxPages
ApiDelay == 1           \* API_DELAY of the environment, in seconds
MaxValid == 2           \* valid listings on a full page of the API
MaxRuns == 2            \* calls of run() on one service
NumThreads == 2         \* threads that share one breaker
MaxSlack == 1           \* seconds left of the breaker's timeout when a page is requested

(* Values and exception messages of the wrapped operations                 *)
V1 == <<118, 49>>    \* "v1"
V2 == <<118, 50>>    \* "v2"
E1 == <<101, 49>>    \* "e1"
E2 == <<101, 50>>    \* "e2"
Values == {V1, V2}
Errors == {E1, E2}

-----------------------------------------------------------------------------
(* Outcomes                                                                *)
None == -1
NoneValue == <<>>
NoOutcome == [kind |-> "none", val |-> NoneValue]
Return(v) == [kind |-> "return", val |-> v]
Raise(e) == [kind |-> "raise", val |-> e]
Outcomes == {Return(v) : v \in Values} \cup {Raise(e) : e \in Errors}

\* "Circuit breaker is OPEN"
CircuitOpenMsg == <<67, 105, 114, 99, 117, 105, 116, 32, 98, 114, 101, 97, 107, 101, 114,
                   32, 105, 115, 32, 79, 80, 69, 78>>

RECURSIVE Pow(_, _)
Pow(b, n) == IF n = 0 THEN 1 ELSE b * Pow(b, n - 1)


-----------------------------------------------------------------------------
(* CircuitBreaker (etl.py:131-161)                                         *)

\* the breaker object, as a record of its fields
CB == [failure_threshold |-> failure_threshold,
       recovery_timeout |-> recovery_timeout,
       failure_count |-> failure_count,
       last_failure_time |-> last_failure_time,
       state |-> state]

\* CircuitBreaker.__init__
CircuitBreaker_init(threshold, timeout) ==
    [failure_threshold |-> threshold,
     recovery_timeout |-> timeout,
     failure_count |-> 0,
     last_failure_time |-> None,
     state |-> "CLOSED"]

\* (mutant) the timeout counts as expired when exactly recovery_timeout has elapsed
cb_rejects_ge(cb, t) ==
    /\ cb.state = "OPEN"
    /\ ~(t - cb.last_failure_time >= cb.recovery_timeout)

\* lines 142-146: the call is rejected (raise "Circuit breaker is OPEN")
cb_rejects(cb, t) ==
    /\ cb.state = "OPEN"
    /\ ~(t - cb.last_failure_time > cb.recovery_timeout)

\* lines 142-144: an OPEN breaker whose timeout has expired becomes HALF_OPEN
cb_enter(cb, t) ==
    IF cb.state = "OPEN" /\ t - cb.last_failure_time > cb.recovery_timeout
    THEN [cb EXCEPT !.state = "HALF_OPEN"]
    ELSE cb

\* (mutant) every success zeroes the counter, in whatever state
cb_on_success_reset_always(cb) ==
    IF cb.state = "HALF_OPEN"
    THEN [cb EXCEPT !.state = "CLOSED", !.failure_count = 0]
    ELSE [cb EXCEPT !.failure_count = 0]

\* (mutant) a success through a CLOSED breaker forgets the last failure's time
cb_on_success_clears_time(cb) ==
    IF cb.state = "HALF_OPEN"
    THEN [cb EXCEPT !.state = "CLOSED", !.failure_count = 0]
    ELSE [cb EXCEPT !.last_failure_time = None]

\* (mutant) a successful trial closes the breaker without zeroing the counter
cb_on_success_no_reset(cb) ==
    IF cb.state = "HALF_OPEN"
    THEN [cb EXCEPT !.state = "CLOSED"]
    ELSE cb

\* lines 150-153: func returned
cb_on_success(cb) ==
    IF cb.state = "HALF_OPEN"
    THEN [cb EXCEPT !.state = "CLOSED", !.failure_count = 0]
    ELSE cb

\* (mutant) the breaker opens only when the counter exceeds the threshold
cb_on_failure_gt(cb, t) ==
    LET counted == [cb EXCEPT !.failure_count = cb.failure_count + 1,
                              !.last_failure_time = t]
    IN IF counted.failure_count > counted.failure_threshold
       THEN [counted EXCEPT !.state = "OPEN"]
       ELSE counted

\* (mutant) a failed trial keeps the time of the failure that opened the breaker
cb_on_failure_keep_time(cb, t) ==
    LET counted == [cb EXCEPT !.failure_count = cb.failure_count + 1,
                              !.last_failure_time =
                                  IF cb.state = "HALF_OPEN" THEN cb.last_failure_time ELSE t]
    IN IF counted.failure_count >= counted.failure_threshold
       THEN [counted EXCEPT !.state = "OPEN"]
       ELSE counted

\* lines 154-159: func raised at time t
cb_on_failure(cb, t) ==
    LET counted == [cb EXCEPT !.failure_count = cb.failure_count + 1,
                              !.last_failure_time = t]
    IN IF counted.failure_count >= counted.failure_threshold
       THEN [counted EXCEPT !.state = "OPEN"]
       ELSE counted

\* CircuitBreaker.call(func) entered at time t, where func, if invoked, takes
\* dur seconds and ends as `outcome`. The result: the breaker after the call,
\* whether func was invoked, what the call returns or raises, and the time.
CircuitBreaker_call(cb, t, outcome, dur) ==
    IF cb_rejects(cb, t)
    THEN [cb |-> cb, invoked |-> FALSE, result |-> Raise(CircuitOpenMsg), t |-> t]
    ELSE IF outcome.kind = "return"
         THEN [cb |-> cb_on_success(cb_enter(cb, t)), invoked |-> TRUE,
               result |-> Return(outcome.val), t |-> t + dur]
         ELSE [cb |-> cb_on_failure(cb_enter(cb, t), t + dur), invoked |-> TRUE,
               result |-> Raise(outcome.val), t |-> t + dur]

\* the assignment of a breaker record to the breaker's fields
SetCB(cb) ==
    /\ failure_threshold' = cb.failure_threshold
    /\ recovery_timeout' = cb.recovery_timeout
    /\ failure_count' = cb.failure_count
    /\ last_failure_time' = cb.last_failure_time
    /\ state' = cb.state

\* a freshly constructed breaker
NewCB(threshold, timeout) ==
    LET cb == CircuitBreaker_init(threshold, timeout)
    IN /\ failure_threshold = cb.failure_threshold
       /\ recovery_timeout = cb.recovery_timeout
       /\ failure_count = cb.failure_count
       /\ last_failure_time = cb.last_failure_time
       /\ state = cb.state

\* the caller's observation of one CircuitBreaker.call
ObserveCall(o, outcome) ==
    /\ invoked' = o.invoked
    /\ op_outcome' = IF o.invoked THEN outcome ELSE NoOutcome
    /\ call_result' = o.result
    /\ call_time' = now
    /\ entry_state' = state
    /\ op_fail_time' = IF o.invoked /\ outcome.kind = "raise" THEN o.t ELSE op_fail_time
    /\ op_failures' = op_failures + (IF o.invoked /\ outcome.kind = "raise" THEN 1 ELSE 0)
    /\ op_successes' = op_successes + (IF o.invoked /\ outcome.kind = "return" THEN 1 ELSE 0)
    /\ ncalls' = ncalls + 1
    /\ consecutive_failures' =
          IF ~o.invoked THEN consecutive_failures
          ELSE IF outcome.kind = "raise" THEN consecutive_failures + 1 ELSE 0
    /\ failures_since_reset' =
          IF ~o.invoked THEN failures_since_reset
          ELSE IF outcome.kind = "raise" THEN failures_since_reset + 1
          ELSE IF state = "OPEN" THEN 0 ELSE failures_since_reset

CBObsInit ==
    /\ invoked = FALSE
    /\ op_outcome = NoOutcome
    /\ call_result = NoOutcome
    /\ call_time = None
    /\ entry_state = "CLOSED"
    /\ op_fail_time = None
    /\ op_failures = 0
    /\ op_successes = 0
    /\ ncalls = 0
    /\ consecutive_failures = 0
    /\ failures_since_reset = 0

-----------------------------------------------------------------------------
(* retry (etl.py:63-93)                                                    *)

RetryIdle ==
    /\ attempts = 0
    /\ current_delay = 0
    /\ retry_pc = "idle"
    /\ retry_result = NoOutcome
    /\ invocations = 0
    /\ func_log = <<>>
    /\ sleeps = <<>>

\* lines 69-72 and 89: the wrapper is entered; with max_attempts <= 0 the loop
\* body never runs and the wrapper returns None
wrapper_enter(n, d) ==
    /\ attempts' = 0
    /\ current_delay' = d
    /\ invocations' = 0
    /\ func_log' = <<>>
    /\ sleeps' = <<>>
    /\ IF 0 < n
       THEN retry_pc' = "loop" /\ retry_result' = NoOutcome
       ELSE retry_pc' = "returned" /\ retry_result' = Return(NoneValue)

\* (mutant) the wrapper gives up one attempt early
wrapper_exhausted_early(n) == n + 1 >= max_attempts

\* (mutant) the wrapper makes one attempt too many
wrapper_exhausted_late(n) == n > max_attempts

\* the wrapper's frame is gone once the caller has taken its result
wrapper_exit ==
    /\ attempts' = 0
    /\ current_delay' = 0
    /\ retry_pc' = "idle"
    /\ retry_result' = NoOutcome
    /\ invocations' = 0
    /\ func_log' = <<>>
    /\ sleeps' = <<>>
    /\ UNCHANGED <<max_attempts, delay, backoff>>

\* lines 76-77: the attempt that just failed was the last one
wrapper_exhausted(n) == n >= max_attempts

\* (mutant) the delay grows by addition
wrapper_next_delay_add(d) == d + backoff

\* line 87
wrapper_next_delay(d) == d * backoff

\* lines 73-87: one iteration of the loop, in which func ended as `outcome`.
\* slept is what the iteration passes to time.sleep (0: no sleep).
wrapper_iteration(outcome) ==
    /\ invocations' = invocations + 1
    /\ func_log' = Append(func_log, outcome)
    /\ IF outcome.kind = "return"
       THEN /\ retry_pc' = "returned"
            /\ retry_result' = outcome
            /\ UNCHANGED <<attempts, current_delay, sleeps>>
       ELSE /\ attempts' = attempts + 1
            /\ IF wrapper_exhausted(attempts + 1)
               THEN /\ retry_pc' = "raised"
                    /\ retry_result' = outcome
                    /\ UNCHANGED <<current_delay, sleeps>>
               ELSE /\ retry_pc' = "loop"
                    /\ retry_result' = NoOutcome
                    /\ sleeps' = Append(sleeps, current_delay)
                    /\ current_delay' = wrapper_next_delay(current_delay)

\* the seconds the iteration just taken has slept (line 86)
wrapper_slept == IF Len(sleeps') > Len(sleeps) THEN sleeps'[Len(sleeps')] ELSE 0


-----------------------------------------------------------------------------
(* A breaker used by serial callers: any sequence of calls, each wrapping  *)
(* an operation that returns or raises, with time passing between and      *)
(* during the calls.                                                       *)

RetryUnused ==
    /\ max_attempts = 0
    /\ delay = 0
    /\ backoff = 0
    /\ RetryIdle

\* ETLService.__init__ (etl.py:553-578), with an api_delay and a store
NewService(d, rows) ==
    /\ request_count = 0
    /\ api_delay = d
    /\ store = rows
    /\ jobs_arg = <<>>
    /\ deduped = <<>>
    /\ rows_before = rows
    /\ upsert_result = NoOutcome
    /\ reapplied = FALSE
    /\ metrics = [total_api_calls |-> 0, total_jobs_extracted |-> 0,
                  total_jobs_loaded |-> 0, errors |-> <<>>]
    /\ pc = "idle"
    /\ max_pages = 0
    /\ page = 0
    /\ all_jobs = <<>>
    /\ fetch_outcome = NoOutcome
    /\ db_stats = [inserted |-> 0, updated |-> 0, total |-> 0]
    /\ run_result = NoOutcome
    /\ requested = <<>>
    /\ iterations = 0
    /\ fetched = <<>>
    /\ errors_before = 0
    /\ statistics_ok = TRUE
    /\ run_results = <<>>

ServiceUnused == NewService(0, {})

InitCB ==
    /\ now = 0
    /\ \E threshold \in 1..MaxThreshold, timeout \in 0..MaxRecovery :
          NewCB(threshold, timeout)
    /\ CBObsInit
    /\ RetryUnused
    /\ ServiceUnused
    /\ api_pages = {}
    /\ callers = <<>>

CBCall ==
    /\ ncalls < MaxCalls
    /\ \E outcome \in Outcomes, dur \in 0..MaxDur :
          LET o == CircuitBreaker_call(CB, now, outcome, dur)
          IN /\ o.t <= MaxTime
             /\ SetCB(o.cb)
             /\ ObserveCall(o, outcome)
             /\ now' = o.t
    /\ UNCHANGED <<api_pages, callers, retryVars, clientVars, store, dbVars, runVars>>

Tick ==
    /\ now < MaxTime
    /\ now' = now + 1
    /\ UNCHANGED <<api_pages, callers, cbVars, cbObs, retryVars, clientVars, store, dbVars, runVars>>

NextCB == CBCall \/ Tick

SpecCB == InitCB /\ [][NextCB]_vars

-----------------------------------------------------------------------------
(* A breaker shared by threads that call it concurrently. CircuitBreaker   *)
(* has no lock: a thread runs lines 142-146 in one step, func in between,  *)
(* and lines 150-153 or 155-161 in one step, and other threads may run     *)
(* between those steps.                                                    *)

Threads == 1..NumThreads

\* the observations of serial calls, not made here
CBObsSame ==
    UNCHANGED <<invoked, op_outcome, call_result, call_time, entry_state, op_fail_time,
                op_failures, op_successes, consecutive_failures, failures_since_reset>>

InitShared ==
    /\ now = 0
    /\ \E threshold \in 1..MaxThreshold, timeout \in 0..MaxRecovery :
          NewCB(threshold, timeout)
    /\ CBObsInit
    /\ RetryUnused
    /\ ServiceUnused
    /\ api_pages = {}
    /\ callers = [t \in Threads |-> [pc |-> "idle", entry |-> "CLOSED"]]

\* lines 142-147: thread t enters call(); it is rejected, or it goes on to
\* invoke func, having made an expired OPEN breaker HALF_OPEN
CallEnter(t) ==
    /\ callers[t].pc = "idle"
    /\ ncalls < MaxCalls
    /\ ncalls' = ncalls + 1
    /\ IF cb_rejects(CB, now)
       THEN UNCHANGED <<cbVars, callers>>
       ELSE /\ SetCB(cb_enter(CB, now))
            /\ callers' = [callers EXCEPT ![t] = [pc |-> "in_func", entry |-> state]]
    /\ CBObsSame
    /\ UNCHANGED <<now, api_pages, retryVars, clientVars, store, dbVars, runVars>>

\* lines 148-161: func returns or raises in thread t, and t records it
CallExit(t) ==
    /\ callers[t].pc = "in_func"
    /\ \E outcome \in Outcomes :
          SetCB(IF outcome.kind = "return" THEN cb_on_success(CB)
                                          ELSE cb_on_failure(CB, now))
    /\ callers' = [callers EXCEPT ![t].pc = "idle"]
    /\ CBObsSame
    /\ UNCHANGED <<now, ncalls, api_pages, retryVars, clientVars, store, dbVars, runVars>>

NextShared ==
    \/ \E t \in Threads : CallEnter(t)
    \/ \E t \in Threads : CallExit(t)
    \/ Tick

SpecShared == InitShared /\ [][NextShared]_vars

-----------------------------------------------------------------------------
(* A retry-decorated function called once: the decorator's parameters are  *)
(* drawn at construction, the function's outcomes per invocation.          *)

CBUnused ==
    /\ NewCB(1, 0)
    /\ CBObsInit

InitRetry ==
    /\ now = 0
    /\ max_attempts \in 0..MaxAttemptsBound
    /\ delay \in 0..MaxDelay
    /\ backoff \in 1..MaxBackoff
    /\ RetryIdle
    /\ CBUnused
    /\ ServiceUnused
    /\ api_pages = {}
    /\ callers = <<>>

RetryEnter ==
    /\ retry_pc = "idle"
    /\ wrapper_enter(max_attempts, delay)
    /\ UNCHANGED <<api_pages, callers, now, max_attempts, delay, backoff, cbVars, cbObs, clientVars,
                   store, dbVars, runVars>>

RetryIteration ==
    /\ retry_pc = "loop"
    /\ \E outcome \in Outcomes : wrapper_iteration(outcome)
    /\ now' = now + wrapper_slept
    /\ UNCHANGED <<api_pages, callers, max_attempts, delay, backoff, cbVars, cbObs, clientVars, store, dbVars,
                   runVars>>

NextRetry == RetryEnter \/ RetryIteration

SpecRetry == InitRetry /\ [][NextRetry]_vars


-----------------------------------------------------------------------------
(* Python str and dict operations used by the service                     *)

IsSpace(c) == c \in {9, 10, 11, 12, 13, 32}

RECURSIVE lstrip(_)
lstrip(s) == IF s # <<>> /\ IsSpace(Head(s)) THEN lstrip(Tail(s)) ELSE s

RECURSIVE rstrip(_)
rstrip(s) ==
    IF s # <<>> /\ IsSpace(s[Len(s)]) THEN rstrip(SubSeq(s, 1, Len(s) - 1)) ELSE s

\* str.strip()
strip(s) == rstrip(lstrip(s))

\* str.startswith(prefix)
startswith(s, prefix) ==
    Len(s) >= Len(prefix) /\ SubSeq(s, 1, Len(prefix)) = prefix

\* str.lower(), on ASCII letters
lower(s) == [i \in 1..Len(s) |-> IF s[i] \in 65..90 THEN s[i] + 32 ELSE s[i]]

\* sub in s
contains(s, sub) ==
    \E i \in 0..(Len(s) - Len(sub)) : SubSeq(s, i + 1, i + Len(sub)) = sub

\* str(n) for an int n >= 0
RECURSIVE str_int(_)
str_int(n) == IF n < 10 THEN <<48 + n>> ELSE str_int(n \div 10) \o <<48 + (n % 10)>>

\* d.get(k, default)
Get(d, k, default) == IF k \in DOMAIN d THEN d[k] ELSE default

\* a JSON null where a str is expected (None has no .strip())
JsonNull == <<-1>>

Http == <<104, 116, 116, 112>>                          \* "http"
NotAUrl == <<110, 111, 116, 45, 97, 45, 117, 114, 108>>    \* "not-a-url"
TitleA == <<65>>                                        \* "A"
TitleB == <<32, 66, 32>>                                \* " B "
Blank == <<32, 32>>                                     \* "  "

-----------------------------------------------------------------------------
(* JobPosting (etl.py:96-128): the fields the pipeline decides on          *)

JobPosting(title, uri) == [position_title |-> title, position_uri |-> uri]

\* (mutant) validate does not look at the scheme of position_uri
validate_any_uri(job) ==
    IF job.position_title = <<>> \/ strip(job.position_title) = <<>>
    THEN FALSE
    ELSE IF job.position_uri = <<>> \/ strip(job.position_uri) = <<>>
    THEN FALSE
    ELSE TRUE

\* JobPosting.validate
validate(job) ==
    IF job.position_title = <<>> \/ strip(job.position_title) = <<>>
    THEN FALSE
    ELSE IF job.position_uri = <<>> \/ strip(job.position_uri) = <<>>
    THEN FALSE
    ELSE IF ~startswith(job.position_uri, Http)
    THEN FALSE
    ELSE TRUE

-----------------------------------------------------------------------------
(* The remote API's page payloads (response.json())                        *)

PageSize == 500

Item(title, uri) ==
    [MatchedObjectDescriptor |-> [PositionTitle |-> title, PositionURI |-> uri]]

\* the URI of the i-th listing of page p: "http" and one more character
Key(p, i) == Http \o <<1000 * p + i>>

\* a full page: its first MaxValid listings are valid, the others are not
FullItems(p) ==
    [i \in 1..PageSize |->
        IF i <= MaxValid THEN Item(TitleA, Key(p, i)) ELSE Item(TitleA, NotAUrl)]

\* a short page: two listings with one URI, and listings that are invalid
ShortItems(p) ==
    <<Item(TitleA, Key(p, 1)),
      Item(TitleA, NotAUrl),
      Item(TitleB, Key(p, 1)),
      Item(<<>>, Key(p, 2)),
      Item(Blank, Key(p, 3)),
      Item(JsonNull, Key(p, 4)),
      Item(TitleA, <<32>> \o Key(p, 5) \o <<32>>)>>

\* a page of n listings, all valid, no two with one URI
ValidItems(p, n) == [i \in 1..n |-> Item(TitleA, Key(p, i))]

\* the second page and the total of a search that has 600 listings
LastPageCount == 100
TotalCount == 600

SearchResult(items, count, count_all) ==
    [type |-> "dict",
     value |-> [SearchResult |-> [SearchResultItems |-> items,
                                  SearchResultCount |-> count,
                                  SearchResultCountAll |-> count_all]]]

PayloadIds == {"empty", "short", "full_more", "full_last", "not_dict"}

\* a search with 600 valid listings: a full first page, a second page of
\* 100, and pages past the last listing
ListedPayloadIds == {"listed"}

\* the payload named id, as the API returns it for page p
Payload(id, p) ==
    CASE id = "empty" -> SearchResult(<<>>, 0, 0)
      [] id = "short" -> SearchResult(ShortItems(p), Len(ShortItems(p)), 2 * PageSize)
      [] id = "full_more" -> SearchResult(FullItems(p), PageSize, 2 * PageSize)
      [] id = "full_last" -> SearchResult(FullItems(p), PageSize, PageSize)
      [] id = "not_dict" -> [type |-> "list", value |-> <<>>]
      [] id = "no_counts" ->
            [type |-> "dict",
             value |-> [SearchResult |-> [SearchResultItems |-> FullItems(p)]]]
      [] id = "listed" ->
            IF p = 1
            THEN SearchResult(ValidItems(p, PageSize), PageSize, TotalCount)
            ELSE IF p = 2
            THEN SearchResult(ValidItems(p, LastPageCount), LastPageCount, TotalCount)
            ELSE SearchResult(ShortItems(p), Len(ShortItems(p)), TotalCount)

\* "API Error"
ApiError == <<65, 80, 73, 32, 69, 114, 114, 111, 114>>
\* "Rate Limit exceeded"
RateLimitError == <<82, 97, 116, 101, 32, 76, 105, 109, 105, 116, 32, 101, 120, 99, 101,
      101, 100, 101, 100>>
ApiErrors == {ApiError, RateLimitError}

\* "'list' object has no attribute 'get'"
AttributeError == <<39, 108, 105, 115, 116, 39, 32, 111, 98, 106, 101, 99, 116, 32, 104,
      97, 115, 32, 110, 111, 32, 97, 116, 116, 114, 105, 98, 117, 116, 101,
      32, 39, 103, 101, 116, 39>>

\* "connection refused"
DbError == <<99, 111, 110, 110, 101, 99, 116, 105, 111, 110, 32, 114, 101, 102, 117,
      115, 101, 100>>

-----------------------------------------------------------------------------
(* USAJobsAPIClient.extract_job_data (etl.py:224-297)                      *)

\* lines 236-240: .strip() of a field that is None raises AttributeError
item_raises(match_job) ==
    \/ Get(match_job, "PositionTitle", <<>>) = JsonNull
    \/ Get(match_job, "PositionURI", <<>>) = JsonNull

\* lines 234-290: the jobs one item contributes (none, or one)
extract_item(item) ==
    LET match_job == Get(item, "MatchedObjectDescriptor", <<>>)
    IN IF item_raises(match_job)
       THEN <<>>
       ELSE LET job == JobPosting(strip(Get(match_job, "PositionTitle", <<>>)),
                                  strip(Get(match_job, "PositionURI", <<>>)))
            IN IF validate(job) THEN <<job>> ELSE <<>>

\* lines 226-293: the loop over the items, appending each item's job
extract_items(items) ==
    LET each == [i \in 1..Len(items) |-> extract_item(items[i])]
        kept == SelectSeq(each, LAMBDA js : js # <<>>)
    IN [k \in 1..Len(kept) |-> kept[k][1]]

\* extract_job_data(api_response), for a dict api_response
extract_job_data(api_response) ==
    LET search_result == Get(api_response.value, "SearchResult", <<>>)
    IN extract_items(Get(search_result, "SearchResultItems", <<>>))

-----------------------------------------------------------------------------
(* DatabaseManager (etl.py:351-547)                                        *)

\* (mutant) the batch is written as it was passed, duplicates included
unique_jobs_none(jobs) == jobs

\* (mutant) the deduplication keeps the last record of each position_uri
unique_jobs_last(jobs) ==
    LET later_uris(i) == {jobs[j].position_uri : j \in (i + 1)..Len(jobs)}
        kept == SelectSeq([i \in 1..Len(jobs) |-> i],
                          LAMBDA i : jobs[i].position_uri \notin later_uris(i))
    IN [k \in 1..Len(kept) |-> jobs[kept[k]]]

\* the deduplication of upsert_jobs, lines 452-465: a job is kept when its
\* position_uri is not among the URIs seen before it
unique_jobs(jobs) ==
    LET seen_uris(i) == {jobs[j].position_uri : j \in 1..(i - 1)}
        kept == SelectSeq([i \in 1..Len(jobs) |-> i],
                          LAMBDA i : jobs[i].position_uri \notin seen_uris(i))
    IN [k \in 1..Len(kept) |-> jobs[kept[k]]]

StoreKeys(rows) == {r.position_uri : r \in rows}

\* (mutant) INSERT without the ON CONFLICT clause taking effect: a row is
\* added beside the row that has its position_uri
upsert_rows_no_conflict(rows, jobs) ==
    LET unique == unique_jobs(jobs)
        incoming == {unique[k] : k \in 1..Len(unique)}
    IN rows \cup incoming

\* (mutant) ON CONFLICT (position_uri) DO NOTHING
upsert_rows_keep_existing(rows, jobs) ==
    LET unique == unique_jobs(jobs)
        incoming == {unique[k] : k \in 1..Len(unique)}
    IN rows \cup {r \in incoming : r.position_uri \notin StoreKeys(rows)}

\* lines 467-487 and 511: INSERT ... ON CONFLICT (position_uri) DO UPDATE
upsert_rows(rows, jobs) ==
    LET unique == unique_jobs(jobs)
        incoming == {unique[k] : k \in 1..Len(unique)}
    IN {r \in rows : r.position_uri \notin StoreKeys(incoming)} \cup incoming

\* (mutant) the statistics count the records of the batch as it was passed
upsert_stats_all_records(rows, jobs) ==
    LET inserted == Cardinality({k \in 1..Len(jobs) :
                                    jobs[k].position_uri \notin StoreKeys(rows)})
    IN [inserted |-> inserted, updated |-> Len(jobs) - inserted,
        total |-> Len(jobs)]

\* lines 512-519: the statistics, from RETURNING (xmax = 0) AS inserted
upsert_stats(rows, jobs) ==
    LET unique == unique_jobs(jobs)
        inserted == Cardinality({k \in 1..Len(unique) :
                                    unique[k].position_uri \notin StoreKeys(rows)})
    IN [inserted |-> inserted, updated |-> Len(unique) - inserted,
        total |-> Len(unique)]

\* (mutant) a failed attempt leaves the first record of the batch written
upsert_jobs_partial(rows, jobs, ok) ==
    IF jobs = <<>>
    THEN [rows |-> rows,
          outcome |-> Return([inserted |-> 0, updated |-> 0, total |-> 0])]
    ELSE IF ok
    THEN [rows |-> upsert_rows(rows, jobs),
          outcome |-> Return(upsert_stats(rows, jobs))]
    ELSE [rows |-> upsert_rows(rows, <<jobs[1]>>), outcome |-> Raise(DbError)]

\* (mutant) without the early return of lines 447-450: an empty batch goes
\* on to the connection and the transaction
upsert_jobs_no_early_return(rows, jobs, ok) ==
    IF ok
    THEN [rows |-> upsert_rows(rows, jobs),
          outcome |-> Return(upsert_stats(rows, jobs))]
    ELSE [rows |-> rows, outcome |-> Raise(DbError)]

\* one attempt of upsert_jobs (lines 447-525) on the rows of job_postings:
\* the rows after it and what it returns or raises. ok: the transaction
\* commits; when it does not, get_connection (lines 365-379) rolls back or
\* closes the connection without a commit, and no row is written.
upsert_jobs(rows, jobs, ok) ==
    IF jobs = <<>>
    THEN [rows |-> rows,
          outcome |-> Return([inserted |-> 0, updated |-> 0, total |-> 0])]
    ELSE IF ok
    THEN [rows |-> upsert_rows(rows, jobs),
          outcome |-> Return(upsert_stats(rows, jobs))]
    ELSE [rows |-> rows, outcome |-> Raise(DbError)]

\* (mutant) a failed query reports the number of rows all the same
get_statistics_counts_anyway(rows, ok) == [total_jobs |-> Cardinality(rows)]

\* lines 527-547: get_statistics; {} when the query fails
get_statistics(rows, ok) ==
    IF ok THEN [total_jobs |-> Cardinality(rows)] ELSE <<>>

-----------------------------------------------------------------------------
(* USAJobsAPIClient.search_jobs (etl.py:182-222) and ETLService.run        *)
(* (etl.py:587-692)                                                        *)

DefaultFailureThreshold == 5
DefaultRecoveryTimeout == 60
DefaultBackoff == 2
SearchMaxAttempts == 3
SearchDelay == 2
CreateTablesMaxAttempts == 3
CreateTablesDelay == 2
UpsertMaxAttempts == 3
UpsertDelay == 1

\* "Error processing page "
PageErrorPrefix == <<69, 114, 114, 111, 114, 32, 112, 114, 111, 99, 101, 115, 115, 105, 110, 103, 32, 112, 97, 103, 101, 32>>
\* "ETL process failed: "
FailedPrefix == <<69, 84, 76, 32, 112, 114, 111, 99, 101, 115, 115, 32, 102, 97, 105, 108, 101, 100, 58, 32>>
\* "rate limit"
RateLimit == <<114, 97, 116, 101, 32, 108, 105, 109, 105, 116>>

\* a decorated function is called: the decorator's parameters and the
\* wrapper's entry
CallRetried(n, d, b) ==
    /\ max_attempts' = n
    /\ delay' = d
    /\ backoff' = b
    /\ wrapper_enter(n, d)

\* what make_request (lines 201-213) can do: return a page payload, or raise
RequestOutcomes ==
    {Return(id) : id \in api_pages} \cup {Raise(e) : e \in ApiErrors}

\* (mutant) the rate-limit sleep comes before the request is made
make_request_sleep_always(outcome) == api_delay

\* the seconds make_request sleeps: line 211 is reached when the request
\* has succeeded
make_request_sleep(outcome) == IF outcome.kind = "return" THEN api_delay ELSE 0

\* (mutant) the request is counted when it has succeeded
make_request_count_success(count, o) ==
    IF o.invoked /\ o.result.kind = "return" THEN count + 1 ELSE count

\* line 202: make_request counts the request before making it; o is what
\* the breaker's call did, and make_request has run when o.invoked
make_request_count(count, o) == IF o.invoked THEN count + 1 ELSE count

\* line 650
page_error_msg(p, e) == PageErrorPrefix \o str_int(p) \o <<58, 32>> \o e

\* (mutant) the test for a rate limit is case-sensitive
is_rate_limit_case_sensitive(e) == contains(e, RateLimit)

\* line 655
is_rate_limit(e) == contains(lower(e), RateLimit)

\* (mutant) a full page counts as a short one
page_stops_le(search_result) ==
    LET search_result_items == Get(search_result, "SearchResultItems", <<>>)
        search_result_count == Get(search_result, "SearchResultCount", 0)
        search_result_count_all == Get(search_result, "SearchResultCountAll", 0)
    IN \/ Len(search_result_items) <= PageSize
       \/ search_result_count >= search_result_count_all

\* (mutant) a short page stops the pagination only when the counts agree
page_stops_and(search_result) ==
    LET search_result_items == Get(search_result, "SearchResultItems", <<>>)
        search_result_count == Get(search_result, "SearchResultCount", 0)
        search_result_count_all == Get(search_result, "SearchResultCountAll", 0)
    IN /\ Len(search_result_items) < PageSize
       /\ search_result_count >= search_result_count_all

\* (mutant) the counts stop the pagination only when the page's count exceeds
\* the total
page_stops_gt(search_result) ==
    LET search_result_items == Get(search_result, "SearchResultItems", <<>>)
        search_result_count == Get(search_result, "SearchResultCount", 0)
        search_result_count_all == Get(search_result, "SearchResultCountAll", 0)
    IN \/ Len(search_result_items) < PageSize
       \/ search_result_count > search_result_count_all

\* lines 641-644: the page just extracted was the last one
page_stops(search_result) ==
    LET search_result_items == Get(search_result, "SearchResultItems", <<>>)
        search_result_count == Get(search_result, "SearchResultCount", 0)
        search_result_count_all == Get(search_result, "SearchResultCountAll", 0)
    IN \/ Len(search_result_items) < PageSize
       \/ search_result_count >= search_result_count_all

\* (mutant) the handler of a failed page retries the same page
page_failed_same_page(e) ==
    /\ metrics' = [metrics EXCEPT !.errors = Append(@, page_error_msg(page, e))]
    /\ IF ~is_rate_limit(e)
       THEN page' = page /\ pc' = "loop_head"
       ELSE page' = page /\ pc' = "load"

\* (mutant) the handler of a failed page records nothing
page_failed_no_record(e) ==
    /\ metrics' = metrics
    /\ IF ~is_rate_limit(e)
       THEN page' = page + 1 /\ pc' = "loop_head"
       ELSE page' = page /\ pc' = "load"

\* lines 649-659: the handler of a failed page
page_failed(e) ==
    /\ metrics' = [metrics EXCEPT !.errors = Append(@, page_error_msg(page, e))]
    /\ IF ~is_rate_limit(e)
       THEN page' = page + 1 /\ pc' = "loop_head"
       ELSE page' = page /\ pc' = "load"

\* (mutant) the fatal failure is recorded and run() goes on to its summary
run_failed_goes_on(e) ==
    /\ metrics' = [metrics EXCEPT !.errors = Append(@, FailedPrefix \o e)]
    /\ run_result' = run_result
    /\ pc' = "finish"

\* lines 687-692: the handler of a fatal failure
run_failed(e) ==
    /\ metrics' = [metrics EXCEPT !.errors = Append(@, FailedPrefix \o e)]
    /\ run_result' = Raise(e)
    /\ pc' = "aborted"

\* lines 594-607: run() is called and calls create_tables
run_enter ==
    /\ \E mp \in 0..MaxPages : max_pages' = mp
    /\ pc' = "create_tables"
    /\ CallRetried(CreateTablesMaxAttempts, CreateTablesDelay, DefaultBackoff)
    /\ run_result' = NoOutcome
    /\ requested' = <<>>
    /\ iterations' = 0
    /\ fetched' = <<>>
    /\ errors_before' = Len(metrics.errors)
    /\ UNCHANGED <<now, cbVars, cbObs, clientVars, api_pages, callers, store, dbVars,
                   statistics_ok, metrics,
                   page, all_jobs, fetch_outcome, db_stats>>

\* run() is called on a new service
RunStart ==
    /\ pc = "idle"
    /\ run_enter
    /\ UNCHANGED run_results

\* one attempt of create_tables (lines 381-400); when it has returned, lines
\* 609-615
CreateTablesAttempt ==
    /\ pc = "create_tables"
    /\ retry_pc = "loop"
    /\ \E outcome \in {Return(NoneValue), Raise(DbError)} : wrapper_iteration(outcome)
    /\ now' = now + wrapper_slept
    /\ CASE retry_pc' = "loop" ->
              UNCHANGED <<pc, metrics, run_result, page, all_jobs>>
         [] retry_pc' = "returned" ->
              /\ all_jobs' = <<>>
              /\ page' = 1
              /\ pc' = "loop_head"
              /\ UNCHANGED <<metrics, run_result>>
         [] retry_pc' = "raised" ->
              /\ run_failed(retry_result'.val)
              /\ UNCHANGED <<page, all_jobs>>
    /\ UNCHANGED <<api_pages, callers, fetched, errors_before, statistics_ok, run_results,
                   max_attempts, delay, backoff, cbVars, cbObs, clientVars, store, dbVars,
                   max_pages, fetch_outcome, db_stats, requested, iterations>>

\* line 617, and line 619 when the loop goes on: search_jobs is called
LoopHead ==
    /\ pc = "loop_head"
    /\ IF page <= max_pages
       THEN /\ pc' = "search"
            /\ CallRetried(SearchMaxAttempts, SearchDelay, DefaultBackoff)
            /\ requested' = Append(requested, page)
            /\ iterations' = iterations + 1
       ELSE /\ pc' = "load"
            /\ UNCHANGED <<retryVars, requested, iterations>>
    /\ UNCHANGED <<api_pages, callers, fetched, errors_before, statistics_ok, run_results,
                   now, cbVars, cbObs, clientVars, store, dbVars, metrics, max_pages, page,
                   all_jobs, fetch_outcome, db_stats, run_result>>

\* one attempt of search_jobs (lines 201-222): make_request through the breaker
SearchAttempt ==
    /\ pc = "search"
    /\ retry_pc = "loop"
    /\ \E outcome \in RequestOutcomes :
          LET o == CircuitBreaker_call(CB, now, outcome, make_request_sleep(outcome))
          IN /\ SetCB(o.cb)
             /\ ObserveCall(o, outcome)
             /\ request_count' = make_request_count(request_count, o)
             /\ wrapper_iteration(o.result)
             /\ now' = o.t + wrapper_slept
    /\ IF retry_pc' = "loop"
       THEN UNCHANGED <<pc, fetch_outcome>>
       ELSE pc' = "page" /\ fetch_outcome' = retry_result'
    /\ UNCHANGED <<api_pages, callers, fetched, errors_before, statistics_ok, run_results,
                   max_attempts, delay, backoff, api_delay, store, dbVars, metrics,
                   max_pages, page, all_jobs, db_stats, run_result, requested,
                   iterations>>

\* (mutant) the batch is assigned the page's jobs, not extended by them
page_fetched_batch_assigned(api_response) ==
    LET counted == [metrics EXCEPT !.total_api_calls = @ + 1]
        search_result == Get(api_response.value, "SearchResult", <<>>)
        search_result_items == Get(search_result, "SearchResultItems", <<>>)
        jobs == extract_job_data(api_response)
    IN IF api_response.type # "dict"
       THEN /\ metrics' = [counted EXCEPT
                             !.errors = Append(@, page_error_msg(page, AttributeError))]
            /\ page' = page + 1
            /\ pc' = "loop_head"
            /\ UNCHANGED all_jobs
       ELSE IF search_result_items = <<>>
       THEN /\ metrics' = counted
            /\ pc' = "load"
            /\ UNCHANGED <<page, all_jobs>>
       ELSE /\ all_jobs' = jobs
            /\ metrics' = [counted EXCEPT !.total_jobs_extracted = @ + Len(jobs)]
            /\ IF page_stops(search_result)
               THEN pc' = "load" /\ page' = page
               ELSE pc' = "loop_head" /\ page' = page + 1

\* (mutant) the extracted count is assigned, not added to
page_fetched_count_assigned(api_response) ==
    LET counted == [metrics EXCEPT !.total_api_calls = @ + 1]
        search_result == Get(api_response.value, "SearchResult", <<>>)
        search_result_items == Get(search_result, "SearchResultItems", <<>>)
        jobs == extract_job_data(api_response)
    IN IF api_response.type # "dict"
       THEN /\ metrics' = [counted EXCEPT
                             !.errors = Append(@, page_error_msg(page, AttributeError))]
            /\ page' = page + 1
            /\ pc' = "loop_head"
            /\ UNCHANGED all_jobs
       ELSE IF search_result_items = <<>>
       THEN /\ metrics' = counted
            /\ pc' = "load"
            /\ UNCHANGED <<page, all_jobs>>
       ELSE /\ all_jobs' = all_jobs \o jobs
            /\ metrics' = [counted EXCEPT !.total_jobs_extracted = Len(jobs)]
            /\ IF page_stops(search_result)
               THEN pc' = "load" /\ page' = page
               ELSE pc' = "loop_head" /\ page' = page + 1

\* (mutant) a page without items is skipped and the next page is fetched
page_empty_continues(counted) ==
    /\ metrics' = counted
    /\ pc' = "loop_head"
    /\ page' = page + 1
    /\ UNCHANGED all_jobs

\* lines 626-628: the page has no items, the loop is left
page_empty(counted) ==
    /\ metrics' = counted
    /\ pc' = "load"
    /\ UNCHANGED <<page, all_jobs>>

\* lines 620-647 for the payload search_jobs returned
page_fetched(api_response) ==
    LET counted == [metrics EXCEPT !.total_api_calls = @ + 1]
        search_result == Get(api_response.value, "SearchResult", <<>>)
        search_result_items == Get(search_result, "SearchResultItems", <<>>)
        jobs == extract_job_data(api_response)
    IN IF api_response.type # "dict"
       THEN \* line 623 raises AttributeError
            /\ metrics' = [counted EXCEPT
                             !.errors = Append(@, page_error_msg(page, AttributeError))]
            /\ page' = page + 1
            /\ pc' = "loop_head"
            /\ UNCHANGED all_jobs
       ELSE IF search_result_items = <<>>
       THEN page_empty(counted)
       ELSE \* lines 630-647
            /\ all_jobs' = all_jobs \o jobs
            /\ metrics' = [counted EXCEPT !.total_jobs_extracted = @ + Len(jobs)]
            /\ IF page_stops(search_result)
               THEN pc' = "load" /\ page' = page
               ELSE pc' = "loop_head" /\ page' = page + 1

\* the rest of one iteration of the pagination loop, lines 620-659
HandlePage ==
    /\ pc = "page"
    /\ IF fetch_outcome.kind = "return"
       THEN page_fetched(Payload(fetch_outcome.val, page))
       ELSE page_failed(fetch_outcome.val) /\ UNCHANGED all_jobs
    /\ fetched' = IF fetch_outcome.kind = "return"
                  THEN Append(fetched, <<page, fetch_outcome.val>>)
                  ELSE fetched
    /\ wrapper_exit
    /\ UNCHANGED <<api_pages, callers, errors_before, statistics_ok, run_results,
                   now, cbVars, cbObs, clientVars, store, dbVars, max_pages,
                   fetch_outcome, db_stats, run_result, requested, iterations>>

\* lines 661-666: upsert_jobs is called when there are jobs
Load ==
    /\ pc = "load"
    /\ IF all_jobs # <<>>
       THEN /\ pc' = "upsert"
            /\ CallRetried(UpsertMaxAttempts, UpsertDelay, DefaultBackoff)
            /\ UNCHANGED db_stats
       ELSE /\ pc' = "finish"
            /\ db_stats' = [inserted |-> 0, updated |-> 0, total |-> 0]
            /\ UNCHANGED retryVars
    /\ UNCHANGED <<api_pages, callers, fetched, errors_before, statistics_ok, run_results,
                   now, cbVars, cbObs, clientVars, store, dbVars, metrics, max_pages, page,
                   all_jobs, fetch_outcome, run_result, requested, iterations>>

\* one attempt of upsert_jobs (lines 445-525); when it has returned, line 664
UpsertAttempt ==
    /\ pc = "upsert"
    /\ retry_pc = "loop"
    /\ \E ok \in BOOLEAN :
          LET u == upsert_jobs(store, all_jobs, ok)
          IN /\ wrapper_iteration(u.outcome)
             /\ store' = u.rows
    /\ now' = now + wrapper_slept
    /\ CASE retry_pc' = "loop" ->
              UNCHANGED <<pc, db_stats, metrics, run_result>>
         [] retry_pc' = "returned" ->
              /\ db_stats' = retry_result'.val
              /\ metrics' = [metrics EXCEPT !.total_jobs_loaded = db_stats'.total]
              /\ pc' = "finish"
              /\ UNCHANGED run_result
         [] retry_pc' = "raised" ->
              /\ run_failed(retry_result'.val)
              /\ UNCHANGED db_stats
    /\ UNCHANGED <<api_pages, callers, fetched, errors_before, statistics_ok, run_results,
                   max_attempts, delay, backoff, cbVars, cbObs, clientVars, dbVars,
                   max_pages, page, all_jobs, fetch_outcome, requested, iterations>>

\* lines 668-685: the final statistics and the summary
Finish ==
    /\ pc = "finish"
    /\ \E ok \in BOOLEAN :
          LET final_stats == get_statistics(store, ok)
          IN /\ run_result' = Return([api_calls_made |-> metrics.total_api_calls,
                                      jobs_extracted |-> metrics.total_jobs_extracted,
                                      jobs_inserted |-> db_stats.inserted,
                                      jobs_updated |-> db_stats.updated,
                                      total_jobs_in_db |-> Get(final_stats, "total_jobs", 0),
                                      errors |-> metrics.errors])
             /\ statistics_ok' = ok
    /\ pc' = "done"
    /\ UNCHANGED <<api_pages, callers, fetched, errors_before, run_results,
                   now, cbVars, cbObs, retryVars, clientVars, store, dbVars, metrics,
                   max_pages, page, all_jobs, fetch_outcome, db_stats, requested,
                   iterations>>

\* time passes between two pages while the breaker is open: more than its
\* recovery_timeout (elsewhere the run does not depend on the time passed)
Elapse ==
    /\ pc = "loop_head"
    /\ state = "OPEN"
    /\ now <= recovery_timeout
    /\ now' = now + recovery_timeout + 1
    /\ UNCHANGED <<api_pages, callers, cbVars, cbObs, retryVars, clientVars, store, dbVars, runVars>>

\* the rows of job_postings before the run: one of page 1's listings, under
\* another title
InitialStore == {JobPosting(<<66>>, Key(1, 1))}

Init ==
    /\ now = 0
    /\ NewCB(DefaultFailureThreshold, DefaultRecoveryTimeout)
    /\ CBObsInit
    /\ RetryUnused
    /\ NewService(ApiDelay, InitialStore)
    /\ api_pages = PayloadIds
    /\ callers = <<>>

RunNext ==
    \/ RunStart
    \/ CreateTablesAttempt
    \/ LoopHead
    \/ SearchAttempt
    \/ HandlePage
    \/ Load
    \/ UpsertAttempt
    \/ Finish

Next == RunNext \/ Elapse

Spec == Init /\ [][Next]_vars

\* a new service on an empty job_postings table, and a search with 600
\* valid listings on its first two pages
InitFresh ==
    /\ now = 0
    /\ NewCB(DefaultFailureThreshold, DefaultRecoveryTimeout)
    /\ CBObsInit
    /\ RetryUnused
    /\ NewService(ApiDelay, {})
    /\ api_pages = ListedPayloadIds
    /\ callers = <<>>

SpecFresh == InitFresh /\ [][Next]_vars

\* a new service, and a search whose full pages come with or without their
\* count fields
InitCounts ==
    /\ now = 0
    /\ NewCB(DefaultFailureThreshold, DefaultRecoveryTimeout)
    /\ CBObsInit
    /\ RetryUnused
    /\ NewService(ApiDelay, InitialStore)
    /\ api_pages = {"no_counts", "full_more"}
    /\ callers = <<>>

SpecCounts == InitCounts /\ [][Next]_vars

\* line 681: the summary holds the list self.metrics["errors"] itself, not
\* a copy of it; the summary s as its caller reads it now
read_summary(s) == [s EXCEPT !.errors = metrics.errors]

\* run() is called again on the service, after an earlier call has returned
\* or raised; self.metrics is the dict made by __init__ (lines 570-578)
RunAgain ==
    /\ pc \in {"done", "aborted"}
    /\ Len(run_results) + 1 < MaxRuns
    /\ run_results' = Append(run_results, run_result)
    /\ run_enter

\* one service, run() called on it up to MaxRuns times
InitRuns ==
    /\ now = 0
    /\ NewCB(DefaultFailureThreshold, DefaultRecoveryTimeout)
    /\ CBObsInit
    /\ RetryUnused
    /\ NewService(ApiDelay, InitialStore)
    /\ api_pages = {"short"}
    /\ callers = <<>>

NextRuns == Next \/ RunAgain

SpecRuns == InitRuns /\ [][NextRuns]_vars

\* time passes between two pages while the breaker is open, until its
\* recovery_timeout is about to expire: the next search_jobs begins k seconds
\* before an attempt would be let through as the trial
Linger ==
    /\ pc = "loop_head"
    /\ state = "OPEN"
    /\ \E k \in 0..MaxSlack :
          /\ now < last_failure_time + recovery_timeout - k
          /\ now' = last_failure_time + recovery_timeout - k
    /\ UNCHANGED <<api_pages, callers, cbVars, cbObs, retryVars, clientVars, store, dbVars,
                   runVars>>

NextLate == Next \/ Linger

\* one run, in which the breaker's timeout can expire during a retry backoff
SpecLate == InitRuns /\ [][NextLate]_vars

-----------------------------------------------------------------------------
(* DatabaseManager.upsert_jobs called by a caller of its own: a batch      *)
(* drawn from the records over a few keys and titles is applied to a store *)
(* that holds any rows over those keys, and then applied once more.        *)

MaxBatch == 3           \* a batch holds 0..MaxBatch records

DbKeys == {Key(1, 1), Key(1, 2)}
DbTitles == {TitleA, <<66>>}
DbJobs == {JobPosting(t, u) : t \in DbTitles, u \in DbKeys}

\* the stores: position_uri is the key of job_postings (ON CONFLICT
\* (position_uri)), so no two rows share one
Stores == {rows \in SUBSET DbJobs : Cardinality(StoreKeys(rows)) = Cardinality(rows)}

Batches == UNION {[1..n -> DbJobs] : n \in 0..MaxBatch}

InitDB ==
    /\ now = 0
    /\ CBUnused
    /\ RetryUnused
    /\ \E rows \in Stores : NewService(0, rows)
    /\ api_pages = {}
    /\ callers = <<>>

\* upsert_jobs(jobs) is called
UpsertCall ==
    /\ retry_pc = "idle"
    /\ \E batch \in Batches : jobs_arg' = batch
    /\ rows_before' = store
    /\ CallRetried(UpsertMaxAttempts, UpsertDelay, DefaultBackoff)
    /\ UNCHANGED <<api_pages, callers, now, cbVars, cbObs, clientVars, store, deduped, upsert_result,
                   reapplied, runVars>>

\* upsert_jobs is called again with the batch it has just applied
UpsertAgain ==
    /\ retry_pc = "returned"
    /\ ~reapplied
    /\ reapplied' = TRUE
    /\ rows_before' = store
    /\ upsert_result' = NoOutcome
    /\ CallRetried(UpsertMaxAttempts, UpsertDelay, DefaultBackoff)
    /\ UNCHANGED <<api_pages, callers, now, cbVars, cbObs, clientVars, store, jobs_arg, deduped, runVars>>

\* one attempt of the call in progress
UpsertJobsAttempt ==
    /\ retry_pc = "loop"
    /\ \E ok \in BOOLEAN :
          LET u == upsert_jobs(store, jobs_arg, ok)
          IN /\ wrapper_iteration(u.outcome)
             /\ store' = u.rows
    /\ deduped' = unique_jobs(jobs_arg)
    /\ now' = now + wrapper_slept
    /\ upsert_result' = retry_result'
    /\ UNCHANGED <<api_pages, callers, max_attempts, delay, backoff, cbVars, cbObs, clientVars, jobs_arg,
                   rows_before, reapplied, runVars>>

NextDB == UpsertCall \/ UpsertAgain \/ UpsertJobsAttempt

SpecDB == InitDB /\ [][NextDB]_vars

\* a new service on any store, whose API lists few or no jobs: either
\* upsert_jobs is called on its db_manager, or run() is called on it
InitLoad ==
    /\ now = 0
    /\ NewCB(DefaultFailureThreshold, DefaultRecoveryTimeout)
    /\ CBObsInit
    /\ RetryUnused
    /\ \E rows \in Stores : NewService(ApiDelay, rows)
    /\ api_pages = {"empty", "short"}
    /\ callers = <<>>

\* run() is called on a service whose db_manager has not been called
RunStartNew == retry_pc = "idle" /\ RunStart

\* upsert_jobs is called on, and runs in, a service that is not running
DirectCall == pc = "idle" /\ NextDB

NextLoad ==
    \/ DirectCall
    \/ RunStartNew
    \/ CreateTablesAttempt
    \/ LoopHead
    \/ SearchAttempt
    \/ HandlePage
    \/ Load
    \/ UpsertAttempt
    \/ Finish
    \/ Elapse

SpecLoad == InitLoad /\ [][NextLoad]_vars

-----------------------------------------------------------------------------
(* Claims about the circuit breaker (SpecCB)                               *)

\* the step is one CircuitBreaker.call
CallStep == ncalls' = ncalls + 1

\* C1: from a new breaker with failure_threshold T, while every call made so
\* far has failed, the state is CLOSED after fewer than T failing calls and
\* OPEN after the T-th; a call whose operation raised raises that exception.
C1_OpensAtThreshold ==
    /\ (op_successes = 0 /\ op_failures < failure_threshold) => state = "CLOSED"
    /\ (op_successes = 0 /\ op_failures = failure_threshold) => state = "OPEN"
    /\ (invoked /\ op_outcome.kind = "raise") => call_result = Raise(op_outcome.val)

C1_Witness ==
    /\ failure_threshold >= 2
    /\ ncalls = failure_threshold
    /\ op_successes = 0
    /\ op_failures = failure_threshold
    /\ state = "OPEN"
    /\ call_result \in {Raise(e) : e \in Errors}

\* C2: a call on an OPEN breaker made no more than recovery_timeout after
\* the last recorded failure raises "Circuit breaker is OPEN", does not
\* invoke the operation and leaves failure_count, last_failure_time and
\* state as they were.
C2_OpenRejects ==
    [][(CallStep /\ state = "OPEN" /\ now - last_failure_time <= recovery_timeout)
         => /\ call_result' = Raise(CircuitOpenMsg)
            /\ ~invoked'
            /\ UNCHANGED <<failure_count, last_failure_time, state>>]_vars

C2_Witness ==
    /\ entry_state = "OPEN"
    /\ state = "OPEN"
    /\ ~invoked
    /\ call_result = Raise(CircuitOpenMsg)
    /\ call_time - last_failure_time <= recovery_timeout
    /\ ncalls > failure_threshold

\* C3: a call on an OPEN breaker made more than recovery_timeout after the
\* last recorded failure invokes the operation; if the operation returns,
\* the call returns its result and the breaker is CLOSED with
\* failure_count = 0.
C3_TrialSuccessCloses ==
    [][(CallStep /\ state = "OPEN" /\ now - last_failure_time > recovery_timeout)
         => /\ invoked'
            /\ op_outcome'.kind = "return"
                 => /\ call_result' = Return(op_outcome'.val)
                    /\ state' = "CLOSED"
                    /\ failure_count' = 0]_vars

C3_Witness ==
    /\ entry_state = "OPEN"
    /\ invoked
    /\ call_result \in {Return(v) : v \in Values}
    /\ state = "CLOSED"
    /\ failure_count = 0
    /\ op_failures >= failure_threshold

\* C4: when the trial call on an expired OPEN breaker fails, failure_count
\* grows by one, last_failure_time is the time of that failure and the state
\* is OPEN; and an OPEN breaker rejects a call exactly while no more than
\* recovery_timeout has elapsed since the operation last failed.
C4_TrialFailureReopens ==
    [][/\ (CallStep /\ state = "OPEN" /\ now - last_failure_time > recovery_timeout
             /\ op_outcome'.kind = "raise")
          => /\ failure_count' = failure_count + 1
             /\ last_failure_time' = now'
             /\ last_failure_time' = op_fail_time'
             /\ state' = "OPEN"
       /\ (CallStep /\ state = "OPEN")
          => (invoked' <=> now - op_fail_time > recovery_timeout)]_vars

C4_Witness ==
    /\ entry_state = "OPEN"
    /\ invoked
    /\ op_outcome.kind = "raise"
    /\ state = "OPEN"
    /\ failure_count = failure_threshold + 1
    /\ last_failure_time = now
    /\ call_time < now

-----------------------------------------------------------------------------
(* Claims about retry (SpecRetry)                                          *)

RetryDone == retry_pc \in {"returned", "raised"}

Failed(log) == {i \in 1..Len(log) : log[i].kind = "raise"}

\* C5: with max_attempts >= 1, an invocation that returns is the last one:
\* the wrapper has returned that invocation's value after exactly that many
\* invocations; and the wrapper does not give up before max_attempts
\* invocations have failed.
C5_ReturnsFirstSuccess ==
    max_attempts >= 1 =>
        /\ invocations = Len(func_log)
        /\ \A i \in 1..Len(func_log) :
              func_log[i].kind = "return"
                 => /\ i = Len(func_log)
                    /\ retry_pc = "returned"
                    /\ retry_result = func_log[i]
        /\ retry_pc = "returned" => func_log[Len(func_log)].kind = "return"
        /\ retry_pc = "raised" => invocations >= max_attempts

C5_Witness ==
    /\ max_attempts = 3
    /\ retry_pc = "returned"
    /\ invocations = 3
    /\ Failed(func_log) = {1, 2}
    /\ retry_result = Return(V2)

\* C6: with max_attempts = N >= 1, a function that raises on every
\* invocation is invoked exactly N times, and the wrapper raises the
\* exception of the N-th invocation; it is never invoked more than N times.
C6_RaisesLastFailure ==
    max_attempts >= 1 =>
        /\ invocations <= max_attempts
        /\ (RetryDone /\ Failed(func_log) = 1..Len(func_log))
              => /\ retry_pc = "raised"
                 /\ invocations = max_attempts
                 /\ Len(func_log) = max_attempts
                 /\ retry_result = func_log[max_attempts]
        /\ retry_pc = "raised" => Failed(func_log) = 1..Len(func_log)

C6_Witness ==
    /\ max_attempts = 3
    /\ retry_pc = "raised"
    /\ func_log = <<Raise(E1), Raise(E1), Raise(E2)>>
    /\ retry_result = Raise(E2)

RECURSIVE SumSeq(_)
SumSeq(q) == IF q = <<>> THEN 0 ELSE q[1] + SumSeq(Tail(q))

\* C7: the i-th wait of a wrapper call is delay * backoff^(i-1); there is one
\* wait per failed attempt except the final failed one, none after a
\* success, and the calling flow has waited exactly those times; with
\* search_jobs's parameters the waits are 2 then 4.
C7_BackoffDelays ==
    /\ \A i \in 1..Len(sleeps) : sleeps[i] = delay * Pow(backoff, i - 1)
    /\ Len(sleeps) = Cardinality(Failed(func_log)) - (IF retry_pc = "raised" THEN 1 ELSE 0)
    /\ now = SumSeq(sleeps)
    /\ (max_attempts = 3 /\ delay = 2 /\ backoff = 2 /\ retry_pc = "raised")
          => sleeps = <<2, 4>>

C7_Witness ==
    /\ max_attempts = 3
    /\ delay = 2
    /\ backoff = 2
    /\ retry_pc = "raised"
    /\ sleeps = <<2, 4>>
    /\ now = 6


-----------------------------------------------------------------------------
(* Claims about the pagination loop of run() (Spec)                        *)

RunEnded == pc \in {"done", "aborted"}

\* the payload search_jobs has returned for `page`, about to be handled
FetchedPage == Payload(fetch_outcome.val, page)
FetchedResult == Get(FetchedPage.value, "SearchResult", <<>>)
FetchedItems == Get(FetchedResult, "SearchResultItems", <<>>)

PageFetched ==
    /\ pc = "page"
    /\ fetch_outcome.kind = "return"
    /\ FetchedPage.type = "dict"

\* a measure of what run() has left to do: the attempts left of the call in
\* progress, the iterations the loop can still make, and the steps after it
IterationRank == SearchMaxAttempts + 3
LoopRank == UpsertMaxAttempts + 4
RunRank ==
    CASE pc \in {"done", "aborted"} -> 0
      [] pc = "finish" -> 1
      [] pc = "upsert" -> 2 + (UpsertMaxAttempts - attempts)
      [] pc = "load" -> LoopRank - 1
      [] pc = "loop_head" -> LoopRank + (max_pages + 1 - page) * IterationRank
      [] pc = "search" ->
            LoopRank + (max_pages + 1 - page) * IterationRank - 1 - attempts
      [] pc = "page" ->
            LoopRank + (max_pages + 1 - page) * IterationRank - 2 - SearchMaxAttempts
      [] pc = "create_tables" ->
            LoopRank + (max_pages + 1) * IterationRank
               + (CreateTablesMaxAttempts - attempts)
      [] pc = "idle" ->
            LoopRank + (MaxPages + 1) * IterationRank + CreateTablesMaxAttempts + 1

\* run() has a step to take: the guards of its actions
RunCanStep ==
    \/ pc \in {"idle", "loop_head", "page", "load", "finish"}
    \/ pc \in {"create_tables", "search", "upsert"} /\ retry_pc = "loop"

\* C8: run() terminates: the loop begins at most max_pages iterations, each
\* iteration ends by leaving the loop or by advancing page by exactly one,
\* run() can always take a step until it has returned or raised, and each of
\* its steps lowers a measure that is never negative.
C8_RunTerminates ==
    /\ [](iterations <= max_pages)
    /\ [](RunRank >= 0)
    /\ [](RunEnded \/ RunCanStep)
    /\ [][pc = "page" => \/ pc' = "load" /\ page' = page
                         \/ pc' = "loop_head" /\ page' = page + 1]_vars
    /\ [][RunRank' < RunRank]_<<pc, page, attempts, max_pages>>

C8_Witness ==
    /\ pc = "done"
    /\ max_pages = MaxPages
    /\ iterations = MaxPages
    /\ page = MaxPages + 1
    /\ Len(metrics.errors) > 0
    /\ all_jobs # <<>>

\* C9: when the page fetched for p holds 500 items, reports a count on the
\* page below the total count, and p < max_pages, the iteration ends with
\* page = p + 1 without another fetch, and the next step of run() calls
\* search_jobs for that page.
C9_FullPageContinues ==
    [][/\ (/\ PageFetched
           /\ Len(FetchedItems) = PageSize
           /\ Get(FetchedResult, "SearchResultCount", 0)
                 < Get(FetchedResult, "SearchResultCountAll", 0)
           /\ page < max_pages)
          => /\ pc' = "loop_head"
             /\ page' = page + 1
             /\ page' <= max_pages
             /\ requested' = requested
       /\ (pc = "loop_head" /\ page <= max_pages /\ pc' # pc)
          => /\ pc' = "search"
             /\ requested' = Append(requested, page)]_vars

C9_Witness ==
    /\ pc = "search"
    /\ requested = <<1, 2>>
    /\ metrics.total_api_calls = 1
    /\ metrics.errors = <<>>
    /\ Len(all_jobs) = MaxValid

PaginationOver == pc \in {"load", "upsert", "finish", "done", "aborted"}

\* C10: when the page fetched holds more than zero and fewer than 500
\* items, its valid records are appended to the batch and the loop is left;
\* once the loop is left, no page is fetched any more.
C10_ShortPageStops ==
    [][/\ (PageFetched /\ 0 < Len(FetchedItems) /\ Len(FetchedItems) < PageSize)
          => /\ all_jobs' = all_jobs \o extract_job_data(FetchedPage)
             /\ metrics'.total_jobs_extracted
                   = metrics.total_jobs_extracted + Len(extract_job_data(FetchedPage))
             /\ pc' = "load"
             /\ requested' = requested
       /\ PaginationOver => (PaginationOver' /\ requested' = requested)]_vars

C10_Witness ==
    /\ pc = "done"
    /\ max_pages >= 2
    /\ requested = <<1>>
    /\ fetch_outcome = Return("short")
    /\ Get(Payload("short", 1).value.SearchResult, "SearchResultCount", 0)
          < Get(Payload("short", 1).value.SearchResult, "SearchResultCountAll", 0)
    /\ Len(all_jobs) = 3
    /\ metrics.errors = <<>>

\* the counts the fetched page reports
FetchedCount == Get(FetchedResult, "SearchResultCount", 0)
FetchedCountAll == Get(FetchedResult, "SearchResultCountAll", 0)

\* the page last fetched was returned as a dict (fetch_outcome and page keep
\* their values once the loop is left by a break)
LastFetchReturned == fetch_outcome.kind = "return" /\ FetchedPage.type = "dict"

\* C11: when the page fetched holds items and reports a count on the page
\* that is at least the total count, its records are extracted into the
\* batch and the loop is left without another fetch, whatever the number of
\* items and the page budget; no page after it has been requested.
C11_CountsStop ==
    /\ [][(PageFetched /\ FetchedItems # <<>> /\ FetchedCount >= FetchedCountAll)
            => /\ all_jobs' = all_jobs \o extract_job_data(FetchedPage)
               /\ pc' = "load"
               /\ page' = page
               /\ requested' = requested]_vars
    /\ []((PaginationOver /\ LastFetchReturned /\ FetchedItems # <<>>
             /\ FetchedCount >= FetchedCountAll)
            => Len(requested) = page /\ requested[Len(requested)] = page)

C11_Witness ==
    /\ pc = "done"
    /\ max_pages = MaxPages
    /\ requested = <<1>>
    /\ fetch_outcome = Return("full_last")
    /\ Len(FetchedItems) = PageSize
    /\ FetchedCount >= FetchedCountAll
    /\ Len(all_jobs) = MaxValid
    /\ metrics.errors = <<>>

\* C12: when the page fetched holds no items, the loop is left at once: the
\* batch, the error list and the extracted count stay as they were, and no
\* page after it has been requested.
C12_EmptyPageStops ==
    /\ [][(PageFetched /\ FetchedItems = <<>>)
            => /\ pc' = "load"
               /\ page' = page
               /\ all_jobs' = all_jobs
               /\ metrics'.errors = metrics.errors
               /\ metrics'.total_jobs_extracted = metrics.total_jobs_extracted
               /\ requested' = requested]_vars
    /\ []((PaginationOver /\ LastFetchReturned /\ FetchedItems = <<>>)
            => Len(requested) = page /\ requested[Len(requested)] = page)

C12_Witness ==
    /\ pc = "done"
    /\ max_pages = MaxPages
    /\ requested = <<1, 2>>
    /\ fetch_outcome = Return("empty")
    /\ metrics.total_api_calls = 2
    /\ Len(all_jobs) = MaxValid
    /\ metrics.errors = <<>>

\* the message contains "rate limit", whatever the case of its letters
MentionsRateLimit(e) == contains(lower(e), RateLimit)

\* the iteration for `page` has failed: search_jobs raised, or the payload
\* was not a dict
PageFails ==
    /\ pc = "page"
    /\ (fetch_outcome.kind = "raise" \/ FetchedPage.type # "dict")

PageFailure ==
    IF fetch_outcome.kind = "raise" THEN fetch_outcome.val ELSE AttributeError

\* C13: when the iteration for page p fails with a message that does not
\* mention a rate limit, exactly one message is appended to the error list
\* and the loop goes on with page p + 1, which is requested next when
\* p + 1 <= max_pages; run() raises only what the database raised; and a run
\* in which no fetch succeeded returns a summary with jobs_extracted = 0 and
\* one error per iteration.
C13_PageFailureContinues ==
    /\ [][(PageFails /\ ~MentionsRateLimit(PageFailure))
            => /\ metrics'.errors
                     = Append(metrics.errors, page_error_msg(page, PageFailure))
               /\ page' = page + 1
               /\ pc' = "loop_head"
               /\ all_jobs' = all_jobs
               /\ run_result' = run_result
               /\ requested' = requested]_vars
    /\ [](\A i \in 1..Len(requested) : requested[i] = i)
    /\ [](pc = "aborted" => run_result = Raise(DbError))
    /\ []((pc = "done" /\ metrics.total_api_calls = 0)
            => /\ run_result.kind = "return"
               /\ run_result.val.jobs_extracted = 0
               /\ run_result.val.errors = metrics.errors
               /\ Len(metrics.errors) = iterations)

C13_Witness ==
    /\ pc = "done"
    /\ max_pages = MaxPages
    /\ requested = [i \in 1..MaxPages |-> i]
    /\ metrics.total_api_calls = 0
    /\ Len(metrics.errors) = MaxPages
    /\ \A i \in 1..MaxPages : ~MentionsRateLimit(metrics.errors[i])
    /\ metrics.errors[1] = page_error_msg(1, ApiError)
    /\ run_result.kind = "return"
    /\ run_result.val.jobs_extracted = 0

\* the keys of a batch
BatchKeys(batch) == {batch[i].position_uri : i \in 1..Len(batch)}

\* the last fetch failed with a message that mentions a rate limit
RateLimited == fetch_outcome.kind = "raise" /\ MentionsRateLimit(fetch_outcome.val)

\* C14: when the fetch of page p fails with a message that mentions a rate
\* limit, the message is recorded and the loop is left with the batch as it
\* was; no page after p has been requested; a batch that is not empty is
\* passed to upsert_jobs; and the summary of such a run counts the records of
\* the batch, all of whose keys are in the store.
C14_RateLimitStops ==
    /\ [][(pc = "page" /\ RateLimited)
            => /\ metrics'.errors
                     = Append(metrics.errors, page_error_msg(page, fetch_outcome.val))
               /\ pc' = "load"
               /\ page' = page
               /\ all_jobs' = all_jobs
               /\ requested' = requested]_vars
    /\ []((PaginationOver /\ RateLimited)
            => Len(requested) = page /\ requested[Len(requested)] = page)
    /\ [][(pc = "load" /\ all_jobs # <<>>) => pc' = "upsert"]_vars
    /\ []((pc = "done" /\ RateLimited)
            => /\ run_result.kind = "return"
               /\ run_result.val.jobs_extracted = Len(all_jobs)
               /\ run_result.val.jobs_inserted + run_result.val.jobs_updated
                     = Cardinality(BatchKeys(all_jobs))
               /\ BatchKeys(all_jobs) \subseteq StoreKeys(store)
               /\ run_result.val.errors[Len(run_result.val.errors)]
                     = page_error_msg(page, fetch_outcome.val))

C14_Witness ==
    /\ pc = "done"
    /\ max_pages = MaxPages
    /\ requested = <<1, 2>>
    /\ fetch_outcome = Raise(RateLimitError)
    /\ RateLimited
    /\ metrics.errors = <<page_error_msg(2, RateLimitError)>>
    /\ Len(all_jobs) = MaxValid
    /\ run_result.val.jobs_extracted = MaxValid
    /\ run_result.val.jobs_inserted = 1
    /\ run_result.val.jobs_updated = 1

-----------------------------------------------------------------------------
(* Claims about upsert_jobs (SpecDB)                                       *)

\* the position of the first record of the batch that has the key
FirstIndex(batch, uri) ==
    CHOOSE i \in 1..Len(batch) :
        /\ batch[i].position_uri = uri
        /\ \A j \in 1..(i - 1) : batch[j].position_uri # uri

\* an attempt of the call has deduplicated jobs_arg
Deduplicated == invocations >= 1 \/ reapplied

UpsertReturned == upsert_result.kind = "return"
UpsertRaised == upsert_result.kind = "raise"

\* C15: the deduplicated batch holds one record per key of the batch, each
\* the first record of the batch with its key, in the order of those first
\* records.
C15_DedupKeepsFirst ==
    Deduplicated =>
        /\ Len(deduped) = Cardinality(BatchKeys(jobs_arg))
        /\ BatchKeys(deduped) = BatchKeys(jobs_arg)
        /\ \A k \in 1..Len(deduped) :
              deduped[k] = jobs_arg[FirstIndex(jobs_arg, deduped[k].position_uri)]
        /\ \A k1, k2 \in 1..Len(deduped) :
              k1 < k2 => FirstIndex(jobs_arg, deduped[k1].position_uri)
                            < FirstIndex(jobs_arg, deduped[k2].position_uri)

C15_Witness ==
    /\ jobs_arg = <<JobPosting(TitleA, Key(1, 2)), JobPosting(TitleA, Key(1, 1)),
                    JobPosting(<<66>>, Key(1, 2))>>
    /\ deduped = <<JobPosting(TitleA, Key(1, 2)), JobPosting(TitleA, Key(1, 1))>>
    /\ UpsertReturned

\* C16: a call that returns reports as inserted the number of keys of the
\* batch that the store did not hold before the call, as updated the number
\* it held, and as total their sum, the number of keys of the batch; on an
\* empty store every key is inserted.
C16_UpsertCounts ==
    UpsertReturned =>
        LET keys == BatchKeys(jobs_arg)
            stats == upsert_result.val
        IN /\ stats.inserted = Cardinality(keys \ StoreKeys(rows_before))
           /\ stats.updated = Cardinality(keys \cap StoreKeys(rows_before))
           /\ stats.total = stats.inserted + stats.updated
           /\ stats.total = Cardinality(keys)
           /\ rows_before = {} => (stats.inserted = Cardinality(keys) /\ stats.updated = 0)

C16_Witness ==
    /\ UpsertReturned
    /\ ~reapplied
    /\ Len(jobs_arg) = MaxBatch
    /\ Cardinality(BatchKeys(jobs_arg)) = 2
    /\ Cardinality(rows_before) = 1
    /\ upsert_result.val = [inserted |-> 1, updated |-> 1, total |-> 2]

\* C17: a call that returns on a store that held every key of the batch
\* leaves the number of rows and the set of keys as they were and reports
\* inserted = 0 and updated = the number of keys of the batch; a batch applied
\* again to the store it was applied to is such a call.
C17_ReapplyIdempotent ==
    /\ (UpsertReturned /\ BatchKeys(jobs_arg) \subseteq StoreKeys(rows_before))
          => /\ Cardinality(store) = Cardinality(rows_before)
             /\ StoreKeys(store) = StoreKeys(rows_before)
             /\ upsert_result.val.inserted = 0
             /\ upsert_result.val.updated = Cardinality(BatchKeys(jobs_arg))
    /\ reapplied => BatchKeys(jobs_arg) \subseteq StoreKeys(rows_before)

C17_Witness ==
    /\ UpsertReturned
    /\ reapplied
    /\ Len(jobs_arg) = MaxBatch
    /\ store = rows_before
    /\ Cardinality(store) = 2
    /\ upsert_result.val = [inserted |-> 0, updated |-> 2, total |-> 2]

\* C18: after a call that returns, no two rows of the store share a key, the
\* row of every key of the batch is the record deduplication kept for it, and
\* the rows of the other keys are the rows the store held before.
C18_UpsertOverwrites ==
    UpsertReturned =>
        /\ Cardinality(StoreKeys(store)) = Cardinality(store)
        /\ \A k \in 1..Len(deduped) : deduped[k] \in store
        /\ \A i \in 1..Len(jobs_arg) :
              jobs_arg[FirstIndex(jobs_arg, jobs_arg[i].position_uri)] \in store
        /\ {r \in store : r.position_uri \notin BatchKeys(jobs_arg)}
              = {r \in rows_before : r.position_uri \notin BatchKeys(jobs_arg)}

C18_Witness ==
    /\ UpsertReturned
    /\ ~reapplied
    /\ rows_before = {JobPosting(<<66>>, Key(1, 1)), JobPosting(<<66>>, Key(1, 2))}
    /\ jobs_arg = <<JobPosting(TitleA, Key(1, 1)), JobPosting(<<66>>, Key(1, 1))>>
    /\ store = {JobPosting(TitleA, Key(1, 1)), JobPosting(<<66>>, Key(1, 2))}

\* C19: while the attempts of a call fail, and when the call has raised, the
\* store holds the rows it held before the call; the call raises, after
\* UpsertMaxAttempts attempts, what its last attempt raised.
C19_FailedUpsertWritesNothing ==
    /\ (retry_pc = "loop" \/ UpsertRaised) => store = rows_before
    /\ UpsertRaised
          => /\ invocations = UpsertMaxAttempts
             /\ Failed(func_log) = 1..UpsertMaxAttempts
             /\ upsert_result = func_log[UpsertMaxAttempts]
             /\ retry_pc = "raised"
    /\ (retry_pc = "raised") => UpsertRaised

C19_Witness ==
    /\ UpsertRaised
    /\ upsert_result = Raise(DbError)
    /\ Len(jobs_arg) = MaxBatch
    /\ Cardinality(BatchKeys(jobs_arg) \ StoreKeys(store)) = 2
    /\ store = rows_before

-----------------------------------------------------------------------------
(* Claims about the load step of run() (Spec)                              *)

\* C20: when upsert_jobs raises, run() raises what it raised and the store
\* is as it was; a run that has raised has returned no summary, and a run
\* whose batch is not empty ends with a summary only when upsert_jobs has
\* returned.
C20_LoadFailureFatal ==
    /\ [][(pc = "upsert" /\ retry_pc' = "raised")
            => /\ pc' = "aborted"
               /\ run_result' = Raise(retry_result'.val)
               /\ store' = store]_vars
    /\ [](pc = "aborted" => run_result.kind = "raise")
    /\ [](run_result.kind = "return" => pc = "done")
    /\ []((pc = "done" /\ all_jobs # <<>>) => retry_pc = "returned")
    /\ []((pc = "aborted" /\ all_jobs # <<>>)
            => /\ retry_pc = "raised"
               /\ Failed(func_log) = 1..UpsertMaxAttempts
               /\ store = InitialStore)

C20_Witness ==
    /\ pc = "aborted"
    /\ max_pages = MaxPages
    /\ metrics.total_api_calls = MaxPages
    /\ Len(all_jobs) = MaxPages * MaxValid
    /\ run_result = Raise(DbError)
    /\ invocations = UpsertMaxAttempts
    /\ store = InitialStore

-----------------------------------------------------------------------------
(* Claims about the records that reach the load step (Spec)                *)

\* the record has a title and a key that are not blank, and a key that
\* begins with "http"
ValidRecord(job) ==
    /\ \E i \in 1..Len(job.position_title) : ~IsSpace(job.position_title[i])
    /\ \E i \in 1..Len(job.position_uri) : ~IsSpace(job.position_uri[i])
    /\ Len(job.position_uri) >= 4
    /\ SubSeq(job.position_uri, 1, 4) = <<104, 116, 116, 112>>

\* the page holds a listing whose key is "not-a-url" and one without a title
HasInvalidItems(items) ==
    /\ \E i \in 1..Len(items) : items[i].MatchedObjectDescriptor.PositionURI = NotAUrl
    /\ \E i \in 1..Len(items) : items[i].MatchedObjectDescriptor.PositionTitle = <<>>

\* C21: every record of the batch, and so every record passed to
\* upsert_jobs and every row of the store, is valid; no row has the key
\* "not-a-url" or an empty title; and a page that holds invalid listings is
\* extracted without an error being recorded.
C21_OnlyValidRecordsLoaded ==
    /\ [](\A i \in 1..Len(all_jobs) : ValidRecord(all_jobs[i]))
    /\ [](\A r \in store : ValidRecord(r))
    /\ [](\A r \in store : r.position_uri # NotAUrl /\ r.position_title # <<>>)
    /\ [][(PageFetched /\ FetchedItems # <<>>)
            => /\ metrics'.errors = metrics.errors
               /\ Len(all_jobs') <= Len(all_jobs) + Len(FetchedItems)
               /\ \A i \in 1..Len(all_jobs') : all_jobs'[i].position_uri # NotAUrl]_vars

C21_Witness ==
    /\ pc = "done"
    /\ fetch_outcome = Return("short")
    /\ HasInvalidItems(FetchedItems)
    /\ Len(FetchedItems) = 7
    /\ Len(all_jobs) = 3
    /\ metrics.errors = <<>>
    /\ BatchKeys(all_jobs) \subseteq StoreKeys(store)

-----------------------------------------------------------------------------
(* Claims about the summary of a run on a new service (SpecFresh)          *)

\* the listing is extracted into a valid record
ValidItem(item) ==
    LET d == item.MatchedObjectDescriptor
    IN /\ d.PositionTitle # JsonNull
       /\ d.PositionURI # JsonNull
       /\ ValidRecord(JobPosting(strip(d.PositionTitle), strip(d.PositionURI)))

\* the number of valid listings of the page p returned as payload id
ValidCount(p, id) ==
    LET response == Payload(id, p)
        items == IF response.type = "dict"
                 THEN response.value.SearchResult.SearchResultItems
                 ELSE <<>>
    IN Cardinality({i \in 1..Len(items) : ValidItem(items[i])})

\* the valid listings of the pages this run has fetched
ValidFetched == SumSeq([k \in 1..Len(fetched) |-> ValidCount(fetched[k][1], fetched[k][2])])

\* the run has fetched page 1 with 500 and page 2 with 100 listings, all
\* valid and no two with one key
TwoPagesFetched ==
    /\ fetched = <<<<1, "listed">>, <<2, "listed">>>>
    /\ requested = <<1, 2>>

\* C22: the summary of a run on a new service reports as jobs_extracted the
\* number of valid listings of the pages it has fetched; when those are a
\* page of 500 and a page of 100 uniquely keyed valid listings and the store
\* was empty, it reports 600 extracted, 600 inserted and none updated, after
\* two fetches.
C22_FreshRunCounts ==
    pc = "done" =>
        /\ run_result.val.jobs_extracted = ValidFetched
        /\ TwoPagesFetched =>
              /\ run_result.val.jobs_extracted = 600
              /\ run_result.val.jobs_inserted = 600
              /\ run_result.val.jobs_updated = 0
              /\ run_result.val.api_calls_made = 2

C22_Witness ==
    /\ pc = "done"
    /\ TwoPagesFetched
    /\ max_pages = 2
    /\ run_result.val.jobs_extracted = 600
    /\ Cardinality(store) = 600
    /\ run_result.val.errors = <<>>

-----------------------------------------------------------------------------
(* Claims about the summaries of several runs of one service (SpecRuns)    *)

\* the errors this run has recorded
RunErrors == SubSeq(metrics.errors, errors_before + 1, Len(metrics.errors))

\* C23 (as claimed): the summary a call to run() returns describes that run
\* only: its api_calls_made is the number of pages this run fetched, its
\* jobs_extracted the number of valid listings on them, its errors the
\* errors this run recorded.
C23_SummaryDescribesRun ==
    pc = "done" =>
        /\ run_result.val.api_calls_made = Len(fetched)
        /\ run_result.val.jobs_extracted = ValidFetched
        /\ run_result.val.errors = RunErrors

\* a second run has returned a summary that counts the first run's page too
C23_Witness ==
    /\ pc = "done"
    /\ Len(run_results) = 1
    /\ run_results[1].kind = "return"
    /\ Len(fetched) = 1
    /\ run_result.val.api_calls_made = 2
    /\ run_result.val.jobs_extracted = 2 * ValidFetched


\* the summaries the earlier calls of run() have returned
EarlierSummaries == {i \in 1..Len(run_results) : run_results[i].kind = "return"}

\* C24 (as claimed): a summary that run() has returned reads, during and
\* after every later call of run() on the service, as it read when it was
\* returned, its errors included.
C24_ReturnedSummaryImmutable ==
    \A i \in EarlierSummaries : read_summary(run_results[i].val) = run_results[i].val

\* a later run has failed a page, and the summary of the run before it,
\* returned without errors, now reads with that error
C24_Witness ==
    /\ Len(run_results) = 1
    /\ 1 \in EarlierSummaries
    /\ run_results[1].val.errors = <<>>
    /\ pc = "done"
    /\ Len(RunErrors) = 1
    /\ read_summary(run_results[1].val).errors = RunErrors

-----------------------------------------------------------------------------
(* Claims about duplicate keys in a batch (SpecDB)                         *)

LastIndex(batch, uri) ==
    CHOOSE i \in 1..Len(batch) :
        /\ batch[i].position_uri = uri
        /\ \A j \in (i + 1)..Len(batch) : batch[j].position_uri # uri

\* the rows of the store with the key uri
RowsOf(uri) == {r \in store : r.position_uri = uri}

\* the batch holds two records with one key and different titles
HasDuplicateKey(batch) ==
    \E i, j \in 1..Len(batch) :
        /\ i < j
        /\ batch[i].position_uri = batch[j].position_uri
        /\ batch[i].position_title # batch[j].position_title

\* C25 (as claimed): after a call that returns, the row persisted for a key
\* of the batch is the last record of the batch with that key.
C25_KeepsLastSeen ==
    UpsertReturned =>
        \A uri \in BatchKeys(jobs_arg) :
            RowsOf(uri) = {jobs_arg[LastIndex(jobs_arg, uri)]}

\* C25 (amended): after a call that returns, the row persisted for a key of
\* the batch is the first record of the batch with that key.
C25_KeepsFirstSeen ==
    UpsertReturned =>
        \A uri \in BatchKeys(jobs_arg) :
            RowsOf(uri) = {jobs_arg[FirstIndex(jobs_arg, uri)]}

C25_Witness ==
    /\ UpsertReturned
    /\ HasDuplicateKey(jobs_arg)
    /\ jobs_arg = <<JobPosting(TitleA, Key(1, 1)), JobPosting(TitleA, Key(1, 2)),
                    JobPosting(<<66>>, Key(1, 1))>>
    /\ rows_before = {JobPosting(<<66>>, Key(1, 1))}
    /\ RowsOf(Key(1, 1)) = {JobPosting(TitleA, Key(1, 1))}

-----------------------------------------------------------------------------
(* Claims about the breaker's failure counter (SpecCB)                     *)

\* C26 (as claimed): failure_count is the number of failed operation calls
\* since the most recent successful one, and an OPEN breaker has seen
\* failure_threshold failures with no success between them.
C26_CountsConsecutiveFailures ==
    /\ failure_count = consecutive_failures
    /\ state = "OPEN" => consecutive_failures >= failure_threshold

\* C26 (amended): failure_count is the number of failed operation calls
\* since the breaker was made or since the most recent successful trial
\* call; successes through a CLOSED breaker do not lower it, and the breaker
\* is OPEN exactly when that number has reached failure_threshold.
C26_CountsFailuresSinceReset ==
    /\ failure_count = failures_since_reset
    /\ state = "OPEN" <=> failures_since_reset >= failure_threshold
    /\ state = "CLOSED" <=> failures_since_reset < failure_threshold

\* a failure, a success and a failure have opened a breaker of threshold 2
C26_Witness ==
    /\ failure_threshold = 2
    /\ ncalls = 3
    /\ op_failures = 2
    /\ op_successes = 1
    /\ consecutive_failures = 1
    /\ failures_since_reset = 2
    /\ failure_count = 2
    /\ state = "OPEN"

\* C27: a call through a CLOSED breaker whose operation returns returns the
\* operation's result and leaves failure_count, last_failure_time and state
\* as they were.
C27_ClosedSuccessNoEffect ==
    [][(CallStep /\ state = "CLOSED" /\ op_outcome'.kind = "return")
         => /\ invoked'
            /\ call_result' = Return(op_outcome'.val)
            /\ UNCHANGED <<failure_count, last_failure_time, state>>]_vars

\* a call has returned through a CLOSED breaker that had counted failures
C27_Witness ==
    /\ entry_state = "CLOSED"
    /\ invoked
    /\ call_result \in {Return(v) : v \in Values}
    /\ state = "CLOSED"
    /\ failure_count >= 1
    /\ last_failure_time # None
    /\ consecutive_failures = 0

-----------------------------------------------------------------------------
(* Claims about the attempts of search_jobs (Spec)                         *)

\* an attempt of search_jobs is made in this step
AttemptStep == pc = "search" /\ retry_pc = "loop"

\* the seconds the retry wrapper sleeps after the attempt of this step
BackoffWait == IF Len(sleeps') > Len(sleeps) THEN sleeps'[Len(sleeps')] ELSE 0

\* C28: the attempt of search_jobs that receives a page waits api_delay,
\* once, and the call then returns that page without a backoff wait; an
\* attempt whose request fails, or that the breaker rejects, waits only the
\* retry backoff, if another attempt follows.
C28_DelayOnSuccessOnly ==
    [][AttemptStep =>
         /\ (invoked' /\ op_outcome'.kind = "return")
               => /\ now' = now + api_delay
                  /\ BackoffWait = 0
                  /\ pc' = "page"
                  /\ fetch_outcome' = op_outcome'
         /\ ~(invoked' /\ op_outcome'.kind = "return")
               => /\ now' = now + BackoffWait
                  /\ pc' = "page" => fetch_outcome'.kind = "raise"]_vars

\* page 1 was fetched on the second attempt: one backoff wait, then one
\* api_delay
C28_Witness ==
    /\ pc = "page"
    /\ page = 1
    /\ fetch_outcome.kind = "return"
    /\ func_log[1].kind = "raise"
    /\ sleeps = <<SearchDelay>>
    /\ api_delay > 0
    /\ now = SearchDelay + api_delay

\* C29: request_count never decreases; an attempt of search_jobs that makes
\* the request adds one to it, whether the request succeeds or fails; an
\* attempt the breaker rejects, and every other step, leaves it as it was;
\* so it is the number of requests made.
C29_RequestCountGrows ==
    /\ [](request_count = op_failures + op_successes)
    /\ [][/\ request_count' >= request_count
          /\ (AttemptStep /\ invoked') => request_count' = request_count + 1
          /\ (AttemptStep /\ call_result' = Raise(CircuitOpenMsg))
                => (~invoked' /\ request_count' = request_count)
          /\ ~AttemptStep => request_count' = request_count]_vars

\* requests have succeeded and failed, and the open breaker has rejected an
\* attempt
C29_Witness ==
    /\ request_count = DefaultFailureThreshold + 1
    /\ op_successes = 1
    /\ op_failures = DefaultFailureThreshold
    /\ ~invoked
    /\ call_result = Raise(CircuitOpenMsg)
    /\ ncalls > request_count

-----------------------------------------------------------------------------
(* Claims about an empty batch (SpecLoad)                                  *)

ZeroCounts == [inserted |-> 0, updated |-> 0, total |-> 0]

\* an attempt of a direct call of upsert_jobs is made in this step
DirectAttempt == pc = "idle" /\ retry_pc = "loop"

\* C30: a call of upsert_jobs with an empty batch returns zero counts on its
\* first attempt and leaves the store as it was, whether or not the database
\* can be reached; and run(), when it has extracted no record, goes to its
\* summary without calling upsert_jobs, the store as it was and zero counts
\* inserted and updated.
C30_EmptyBatchNoStore ==
    /\ [][(DirectAttempt /\ jobs_arg = <<>>)
            => /\ upsert_result' = Return(ZeroCounts)
               /\ retry_pc' = "returned"
               /\ invocations' = 1
               /\ sleeps' = <<>>
               /\ store' = store]_vars
    /\ [][(pc = "load" /\ all_jobs = <<>>)
            => /\ pc' = "finish"
               /\ db_stats' = ZeroCounts
               /\ UNCHANGED <<store, retryVars>>]_vars
    /\ []((pc = "done" /\ all_jobs = <<>>)
            => /\ store = rows_before
               /\ run_result.val.jobs_inserted = 0
               /\ run_result.val.jobs_updated = 0)

\* upsert_jobs has returned zero counts for an empty batch, on a store that
\* holds rows
C30_Witness ==
    /\ pc = "idle"
    /\ jobs_arg = <<>>
    /\ upsert_result = Return(ZeroCounts)
    /\ invocations = 1
    /\ store = rows_before
    /\ store # {}

-----------------------------------------------------------------------------
(* Claims about a breaker shared by concurrent callers (SpecShared)        *)

\* the threads that are in func and entered after the timeout had expired:
\* one found the breaker OPEN and made it HALF_OPEN, the others found it
\* HALF_OPEN
TrialCallers ==
    {t \in Threads : callers[t].pc = "in_func" /\ callers[t].entry \in {"OPEN", "HALF_OPEN"}}

\* C31 (as claimed): of the calls made after the recovery timeout has
\* expired, one is let through as the trial; no other invokes the operation
\* while the trial's outcome is not recorded.
C31_OneTrialAtATime == Cardinality(TrialCallers) <= 1

\* two threads are in func, the second let through while the breaker was
\* HALF_OPEN for the first
C31_Witness ==
    /\ state = "HALF_OPEN"
    /\ callers[1] = [pc |-> "in_func", entry |-> "OPEN"]
    /\ callers[2] = [pc |-> "in_func", entry |-> "HALF_OPEN"]

-----------------------------------------------------------------------------
(* Claims about the breaker inside the retried search_jobs (Spec)          *)

\* C32: every attempt of search_jobs that makes the request and fails adds
\* one to the breaker's failure_count, in whatever invocation and at
\* whatever attempt of it, and the breaker is OPEN as soon as failure_count
\* has reached failure_threshold, also when attempts of the invocation
\* remain; so failure_count is the number of failed requests while no trial
\* has succeeded.
C32_BreakerCountsEachAttempt ==
    /\ [](failure_count = failures_since_reset)
    /\ [][(AttemptStep /\ invoked' /\ op_outcome'.kind = "raise")
            => /\ failure_count' = failure_count + 1
               /\ failure_count' >= failure_threshold <=> state' = "OPEN"
               /\ call_result' = op_outcome']_vars
    /\ [][(AttemptStep /\ ~(invoked' /\ op_outcome'.kind = "raise"))
            => failure_count' \in {failure_count, 0}]_vars

\* three failed attempts for page 1 and two for page 2 have opened the
\* breaker, and an attempt for page 2 remains
C32_Witness ==
    /\ requested = <<1, 2>>
    /\ pc = "search"
    /\ retry_pc = "loop"
    /\ attempts = 2
    /\ op_failures = DefaultFailureThreshold
    /\ op_successes = 0
    /\ failure_count = DefaultFailureThreshold
    /\ state = "OPEN"


\* the first attempt of the search_jobs invocation in progress was rejected
\* by the open breaker
FirstAttemptRejected == func_log # <<>> /\ func_log[1] = Raise(CircuitOpenMsg)

\* the breaker is OPEN and its recovery_timeout has not expired
StillOpen == state = "OPEN" /\ now - last_failure_time <= recovery_timeout

\* a page whose fetch ended rejected by the breaker records one error and
\* the driver goes on to the next page
RejectedPageSkipped ==
    [][(pc = "page" /\ fetch_outcome = Raise(CircuitOpenMsg))
         => /\ metrics'.errors
                 = Append(metrics.errors,
                          PageErrorPrefix \o str_int(page) \o <<58, 32>> \o CircuitOpenMsg)
            /\ page' = page + 1
            /\ pc' = "loop_head"
            /\ UNCHANGED <<all_jobs, run_result, request_count>>]_vars

\* C33 (as claimed): a rejected page fetch is handled like a transient
\* failure, and when the first attempt of an invocation was rejected, no
\* later attempt of that invocation makes the request.
C33_RejectedNeverRequests ==
    /\ RejectedPageSkipped
    /\ [][(AttemptStep /\ FirstAttemptRejected)
            => (~invoked' /\ request_count' = request_count)]_vars

\* C33 (amended): a rejected page fetch is handled like a transient failure;
\* an attempt made while the breaker is OPEN and its timeout has not expired
\* is rejected without making the request; and after a rejected first
\* attempt, a later attempt of the invocation makes the request only as the
\* trial of a breaker whose timeout has expired by then.
C33_RejectedRetriesUntilExpiry ==
    /\ RejectedPageSkipped
    /\ [][(AttemptStep /\ StillOpen)
            => /\ ~invoked'
               /\ request_count' = request_count
               /\ call_result' = Raise(CircuitOpenMsg)]_vars
    /\ [][(AttemptStep /\ FirstAttemptRejected /\ invoked')
            => /\ state = "OPEN"
               /\ now - last_failure_time > recovery_timeout
               /\ request_count' = request_count + 1]_vars

\* the first attempt for a page was rejected, the timeout expired during the
\* backoff, and the second attempt made the request
C33_Witness ==
    /\ FirstAttemptRejected
    /\ Len(func_log) = 2
    /\ invoked
    /\ entry_state = "OPEN"
    /\ sleeps = <<SearchDelay>>
    /\ request_count = DefaultFailureThreshold + 1

-----------------------------------------------------------------------------
(* Claims about the batch of a run with failed pages (Spec)                *)

\* the records extracted from the page p returned as payload id
ExtractedOf(p, id) ==
    LET response == Payload(id, p)
    IN IF response.type = "dict" THEN extract_job_data(response) ELSE <<>>

\* the records of the pages this run has fetched, in the order fetched
RECURSIVE JobsOf(_)
JobsOf(pages) ==
    IF pages = <<>> THEN <<>>
    ELSE ExtractedOf(pages[1][1], pages[1][2]) \o JobsOf(Tail(pages))

\* the records the page being handled adds to the batch: those extracted
\* from it when it was fetched, none when its fetch failed
HandledJobs ==
    IF fetch_outcome.kind = "return" THEN ExtractedOf(page, fetch_outcome.val) ELSE <<>>

\* C34: whatever pages have failed, the batch that upsert_jobs is called
\* with holds the records of every page the run has fetched, before or
\* after a failed one, in order; its keys are in the store when the run has
\* completed, and the summary counts its records as jobs_extracted.
C34_FailedPageKeepsBatch ==
    /\ [](pc = "load" => all_jobs = JobsOf(fetched))
    /\ [][pc = "page" => all_jobs' = all_jobs \o HandledJobs]_vars
    /\ [][(pc \in {"load", "upsert", "finish"}) => all_jobs' = all_jobs]_vars
    /\ [](pc = "done" =>
            /\ run_result.val.jobs_extracted = Len(all_jobs)
            /\ BatchKeys(all_jobs) \subseteq StoreKeys(store))

\* page 2 failed between two pages that were fetched, and the completed
\* run's summary counts the records of both
C34_Witness ==
    /\ pc = "done"
    /\ requested = <<1, 2, 3>>
    /\ fetched = <<<<1, "full_more">>, <<3, "short">>>>
    /\ Len(run_result.val.errors) = 1
    /\ run_result.val.jobs_extracted = MaxValid + 3
    /\ {Key(1, 1), Key(3, 1)} \subseteq StoreKeys(store)

-----------------------------------------------------------------------------
(* Claims about the order of the page requests (Spec)                      *)

\* C35: the pages a run has requested are 1, 2, 3, ... in that order, each
\* once; the page being fetched or handled is the last one requested; and a
\* page is requested only from the head of the loop, when the page before it
\* has been handled, and it is the next number.
C35_PagesInOrder ==
    /\ [](requested = [i \in 1..Len(requested) |-> i])
    /\ [](pc \in {"search", "page"} => page = Len(requested))
    /\ [][requested' # requested
            => /\ pc = "loop_head"
               /\ pc' = "search"
               /\ page = Len(requested) + 1
               /\ requested' = Append(requested, Len(requested) + 1)]_vars

\* page 3 is being handled after page 1 was fetched and page 2 failed
C35_Witness ==
    /\ requested = <<1, 2, 3>>
    /\ pc = "page"
    /\ page = 3
    /\ Len(fetched) = 1
    /\ Len(metrics.errors) = 1
    /\ iterations = 3

-----------------------------------------------------------------------------
(* Claims about the counts of the summary (Spec)                           *)

\* no two records of the batch have one key
NoKeyRepeats(batch) ==
    \A i, j \in 1..Len(batch) : i # j => batch[i].position_uri # batch[j].position_uri

\* C36: in the summary of a completed run, jobs_inserted + jobs_updated is
\* the number of distinct keys among the extracted records, which is no more
\* than jobs_extracted, and is jobs_extracted exactly when no key repeats
\* among them.
C36_LoadedIsDistinctKeys ==
    pc = "done" =>
        LET s == run_result.val
        IN /\ s.jobs_extracted = Len(all_jobs)
           /\ s.jobs_inserted + s.jobs_updated = Cardinality(BatchKeys(all_jobs))
           /\ s.jobs_inserted + s.jobs_updated <= s.jobs_extracted
           /\ s.jobs_inserted + s.jobs_updated = s.jobs_extracted <=> NoKeyRepeats(all_jobs)

\* a full page and a short page with a repeated key were loaded: one row
\* updated, three inserted, five records extracted
C36_Witness ==
    /\ pc = "done"
    /\ fetched = <<<<1, "full_more">>, <<2, "short">>>>
    /\ ~NoKeyRepeats(all_jobs)
    /\ run_result.val.jobs_extracted = MaxValid + 3
    /\ run_result.val.jobs_updated = 1
    /\ run_result.val.jobs_inserted = MaxValid + 1

-----------------------------------------------------------------------------
(* Claims about the breaker's fields between serial calls (SpecCB)         *)

\* C37: between the calls of serial callers the state is CLOSED exactly
\* when failure_count is below failure_threshold, is OPEN otherwise and
\* never HALF_OPEN, and an OPEN breaker has a last_failure_time.
C37_StateFollowsCount ==
    /\ failure_threshold >= 1
    /\ state = "CLOSED" <=> failure_count < failure_threshold
    /\ state # "HALF_OPEN"
    /\ state \in {"CLOSED", "OPEN"}
    /\ state = "OPEN" => last_failure_time # None

\* a breaker closed by a successful trial has been opened again
C37_Witness ==
    /\ state = "OPEN"
    /\ entry_state = "CLOSED"
    /\ op_successes >= 1
    /\ op_failures = 2 * failure_threshold
    /\ failure_count = failure_threshold
    /\ last_failure_time = op_fail_time

-----------------------------------------------------------------------------
(* Claims about the number of requests of a run (Spec)                     *)

\* C38: a run makes at most max_pages invocations of search_jobs, each with
\* at most 3 attempts, and so at most 3 * max_pages requests; the API calls
\* it counts are the invocations that returned a payload, at most max_pages.
C38_RequestsBounded ==
    /\ Len(requested) <= max_pages
    /\ pc = "search" => invocations <= 3
    /\ request_count <= 3 * Len(requested)
    /\ request_count <= 3 * max_pages
    /\ pc # "idle" => metrics.total_api_calls = Len(fetched)
    /\ metrics.total_api_calls <= max_pages
    /\ pc = "done" => run_result.val.api_calls_made <= max_pages

\* a run of one page has made three requests, the third of which returned
C38_Witness ==
    /\ pc = "done"
    /\ max_pages = 1
    /\ request_count = 3
    /\ op_failures = 2
    /\ run_result.val.api_calls_made = 1

-----------------------------------------------------------------------------
(* Claims about a page without count fields (SpecCounts)                   *)

\* the page to be handled holds items and neither SearchResultCount nor
\* SearchResultCountAll
CountsOmitted ==
    /\ PageFetched
    /\ FetchedItems # <<>>
    /\ "SearchResultCount" \notin DOMAIN FetchedResult
    /\ "SearchResultCountAll" \notin DOMAIN FetchedResult

\* C39: a page with items and without both count fields ends the
\* pagination, also when it holds 500 items and pages remain in the budget:
\* its records are kept, the loop is left, and no page is requested after it.
C39_NoCountsStops ==
    [][/\ CountsOmitted
          => /\ pc' = "load"
             /\ page' = page
             /\ requested' = requested
             /\ all_jobs' = all_jobs \o extract_job_data(FetchedPage)
       /\ (PaginationOver /\ fetch_outcome = Return("no_counts"))
          => (PaginationOver' /\ requested' = requested)]_vars

\* a run with a budget of three pages has ended after a first page of 500
\* items without count fields
C39_Witness ==
    /\ pc = "done"
    /\ max_pages = 3
    /\ requested = <<1>>
    /\ fetched = <<<<1, "no_counts">>>>
    /\ Len(Payload("no_counts", 1).value.SearchResult.SearchResultItems) = 500
    /\ run_result.val.jobs_extracted = MaxValid
    /\ run_result.val.errors = <<>>

-----------------------------------------------------------------------------
(* Claims about the statistics query of run() (Spec)                       *)

\* C40: whether the final get_statistics query succeeds or fails, run()
\* completes with a summary; its total_jobs_in_db is 0 when the query has
\* failed and the number of rows otherwise, its other counts and errors are
\* the run's in both cases, and the store is as it was.
C40_StatisticsFailureNotFatal ==
    /\ [][pc = "finish"
            => /\ pc' = "done"
               /\ run_result'.kind = "return"
               /\ store' = store
               /\ metrics' = metrics
               /\ run_result'.val.jobs_extracted = metrics.total_jobs_extracted
               /\ run_result'.val.jobs_inserted = db_stats.inserted
               /\ run_result'.val.jobs_updated = db_stats.updated
               /\ run_result'.val.errors = metrics.errors]_vars
    /\ [](pc = "done" =>
            run_result.val.total_jobs_in_db
               = IF statistics_ok THEN Cardinality(store) ELSE 0)

\* a run that loaded rows has completed though its statistics query failed
C40_Witness ==
    /\ pc = "done"
    /\ ~statistics_ok
    /\ run_result.val.total_jobs_in_db = 0
    /\ run_result.val.jobs_inserted >= 1
    /\ Cardinality(store) >= 2
    /\ run_result.val.errors = <<>>

=============================================================================
